---- MODULE Spec2Model ----
(***************************************************************************)
(* Quad batch builder and render-target pipeline of paperboard/example.    *)
(*                                                                         *)
(* Four programs of the repository are modelled, selected by `variant`:    *)
(*   "gles20ms"  src/gles20-cube/test20-framebuffer-multisample/quad.go    *)
(*   "gl32ms"    src/gl32-cube/test21-framebuffer-multisample/quad.go      *)
(*   "gl32fb"    src/gl32-cube/test21-framebuffer/quad.go                  *)
(*   "gl21vbo"   src/unnamed/part_001 (second program, makeRectangle)      *)
(* and, for the indexed draws, three programs that draw fixed arrays:      *)
(*   "gl32tri"   the second program of the gles20 quad.go (cubeIndices)    *)
(*   "gl21quad"  src/unnamed/part_000                                      *)
(*   "gl21glsl"  src/unnamed/part_001 (first program)                      *)
(*                                                                         *)
(* Coordinates are fixed point in tenths (2.0 is 20, -1.2 is -12).         *)
(***************************************************************************)
EXTENDS Integers, Sequences, FiniteSets, TLC

VARIABLES variant, pc, off, scr, last, probe, dpi, gl, obj, ctx, frame, log

vars == <<variant, pc, off, scr, last, probe, dpi, gl, obj, ctx, frame, log>>

\* the OpenGL side of the state
glVars == <<dpi, gl, obj, ctx, frame, log>>

-----------------------------------------------------------------------------
(* Program constants *)

bytesFloat32 == 4
bytesUint32 == 4
bytesUint16 == 2
bytesUint8 == 1
vertexPositionSize == 3
vertexTexCoordSize == 2
vertexColorSize == 4
verticesPerQuad == 4
indicesPerQuad == 6
windowWidth == 600
windowHeight == 400
vertexSize == 6
floatSizeInBytes == 4
msaaSamples == 8

\* uint16 holds values modulo 2^16
Uint16Mod == 65536

(* Bounds of the model *)

\* quads appended by DrawRectangle calls in one behaviour of SpecBatch
MaxQuads == 3
\* SpecBatch also runs the index generation of one DrawRectangle call on
\* batches of 0..ProbeQuads quads and of WrapQuads-ProbeNear..WrapQuads+ProbeNear
ProbeQuads == 8
ProbeNear == 3
\* frames a behaviour of Spec draws
MaxFrames == 3

-----------------------------------------------------------------------------
(* The programs *)

Variants == {"gles20ms", "gl32ms", "gl32fb", "gl21vbo"}

\* programs that draw fixed package-level arrays, without a batch
FixedArrayPrograms == {"gl32tri", "gl21quad", "gl21glsl"}

\* programs with one vbo, one ibo and no offscreen target
SingleTargetPrograms == FixedArrayPrograms \cup {"gl21vbo"}

\* programs whose QuadIndices are []uint16
Uint16Variants == {"gles20ms", "gl32ms", "gl32fb"}

\* programs that keep a texture-coordinate stream
TexVariants == {"gles20ms", "gl32ms", "gl32fb"}

\* programs with a separate screen batch (ContextScreen.quads)
ScreenBatchVariants == {"gles20ms", "gl32ms"}

-----------------------------------------------------------------------------
(* Quad geometry *)

\* w * 0.5 on a value in tenths
Half(w) == (w * 5) \div 10

\* the four corners listed clockwise from the top-right one
makeQuadVertices_Clockwise(w, h, z) ==
    << Half(w), Half(h), z,
       Half(w), -Half(h), z,
       -Half(w), -Half(h), z,
       -Half(w), Half(h), z >>

makeQuadVertices(w, h, z) ==
    << Half(w), Half(h), z,
       -Half(w), Half(h), z,
       -Half(w), -Half(h), z,
       Half(w), -Half(h), z >>

\* texture coordinates with the vertical axis flipped
makeQuadTextureCoord_Flipped ==
    << 1, 0,
       0, 0,
       0, 1,
       1, 1 >>

makeQuadTextureCoord ==
    << 1, 1,
       0, 1,
       0, 0,
       1, 0 >>

\* color.NRGBA.RGBA(): alpha-premultiplied 16-bit channels
NRGBAtoRGBA(clr) ==
    << (clr[1] * 257 * clr[4]) \div 255,
       (clr[2] * 257 * clr[4]) \div 255,
       (clr[3] * 257 * clr[4]) \div 255,
       clr[4] * 257 >>

\* the 4 channel values a program stores for a color.NRGBA
ColorChannels(v, clr) == IF v = "gles20ms" THEN clr ELSE NRGBAtoRGBA(clr)

\* makeQuadColors without the alpha channel
makeQuadColors_RGB(c) ==
    << c[1], c[2], c[3],
       c[1], c[2], c[3],
       c[1], c[2], c[3],
       c[1], c[2], c[3] >>

makeQuadColors(c) ==
    << c[1], c[2], c[3], c[4],
       c[1], c[2], c[3], c[4],
       c[1], c[2], c[3], c[4],
       c[1], c[2], c[3], c[4] >>

\* a conversion that keeps 15 bits only
U16_HalfRange(x) == x % (Uint16Mod \div 2)

\* uint16(x): the low 16 bits
U16(x) == x % Uint16Mod

\* makeQuadIndices16 with the base taken from the count including the new quad
makeQuadIndices16_CountAsBase(quadVerticesLen) ==
    LET rectangleCount == quadVerticesLen \div (verticesPerQuad * vertexPositionSize)
        i == U16(U16(rectangleCount) * verticesPerQuad)
    IN  << i, U16(i + 1), U16(i + 2),
           i, U16(i + 2), U16(i + 3) >>

\* []uint16 result: i := uint16((rectangleCount - 1)) * verticesPerQuad
makeQuadIndices16(quadVerticesLen) ==
    LET rectangleCount == quadVerticesLen \div (verticesPerQuad * vertexPositionSize)
        i == U16(U16(rectangleCount - 1) * verticesPerQuad)
    IN  << i, U16(i + 1), U16(i + 2),
           i, U16(i + 2), U16(i + 3) >>

\* []uint32 result (src/unnamed/part_001); every length the model reaches
\* keeps (rectangleCount - 1) * 4 + 3 far below 2^32, where uint32 is exact
makeQuadIndices32(quadVerticesLen) ==
    LET rectangleCount == quadVerticesLen \div (verticesPerQuad * vertexPositionSize)
        i == (rectangleCount - 1) * verticesPerQuad
    IN  << i, i + 1, i + 2,
           i, i + 2, i + 3 >>

makeQuadIndices(v, quadVerticesLen) ==
    IF v \in Uint16Variants
    THEN makeQuadIndices16(quadVerticesLen)
    ELSE makeQuadIndices32(quadVerticesLen)

-----------------------------------------------------------------------------
(* ElementQuads *)

\* &ElementQuads{...} with empty streams and zero offsets
NewElementQuads ==
    [ QuadVertices |-> << >>, QuadTexCoords |-> << >>,
      QuadIndices |-> << >>, QuadColors |-> << >>,
      OffsetVertices |-> 0, OffsetTexCoords |-> 0, OffsetIndices |-> 0,
      OffsetColors |-> 0, BytesTotal |-> 0 ]

\* AppendQuad that leaves the texture-coordinate stream alone
AppendQuad_NoTexCoords(v, q, w, h, z, clr) ==
    LET verts == q.QuadVertices \o makeQuadVertices(w, h, z)
    IN  [ q EXCEPT
            !.QuadVertices = verts,
            !.QuadColors = @ \o makeQuadColors(ColorChannels(v, clr)),
            !.QuadIndices = @ \o makeQuadIndices(v, Len(verts)) ]

\* AppendQuad that generates the indices before the positions are appended
AppendQuad_IndicesFirst(v, q, w, h, z, clr) ==
    LET verts == q.QuadVertices \o makeQuadVertices(w, h, z)
    IN  [ q EXCEPT
            !.QuadVertices = verts,
            !.QuadTexCoords = IF v \in TexVariants
                              THEN @ \o makeQuadTextureCoord ELSE @,
            !.QuadColors = @ \o makeQuadColors(ColorChannels(v, clr)),
            !.QuadIndices = @ \o makeQuadIndices(v, Len(q.QuadVertices)) ]

\* the batch after DrawRectangle / drawRectangle / makeRectangle (w, h, z, clr)
AppendQuad(v, q, w, h, z, clr) ==
    LET verts == q.QuadVertices \o makeQuadVertices(w, h, z)
    IN  [ q EXCEPT
            !.QuadVertices = verts,
            !.QuadTexCoords = IF v \in TexVariants
                              THEN @ \o makeQuadTextureCoord ELSE @,
            !.QuadColors = @ \o makeQuadColors(ColorChannels(v, clr)),
            !.QuadIndices = @ \o makeQuadIndices(v, Len(verts)) ]

\* a screen batch whose indices are generated while its positions are empty
ScreenQuads_IndicesFirst(v) ==
    LET verts == << 10, 10, 0,
                    -10, 10, 0,
                    -10, -10, 0,
                    10, -10, 0 >>
    IN  [ NewElementQuads EXCEPT
            !.QuadIndices = @ \o makeQuadIndices(v, Len(NewElementQuads.QuadVertices)),
            !.QuadVertices = verts,
            !.QuadTexCoords = @ \o makeQuadTextureCoord ]

\* a screen batch that numbers its vertices after those of the offscreen batch
ScreenQuads_SharedCounter(v) ==
    LET verts == << 10, 10, 0,
                    -10, 10, 0,
                    -10, -10, 0,
                    10, -10, 0 >>
    IN  [ NewElementQuads EXCEPT
            !.QuadVertices = verts,
            !.QuadTexCoords = @ \o makeQuadTextureCoord,
            !.QuadIndices = @ \o makeQuadIndices(v, Len(off.QuadVertices) + Len(verts)) ]

\* ContextScreen.load: a new batch whose positions are set wholesale
ScreenQuads(v) ==
    LET verts == << 10, 10, 0,
                    -10, 10, 0,
                    -10, -10, 0,
                    10, -10, 0 >>
    IN  [ NewElementQuads EXCEPT
            !.QuadVertices = verts,
            !.QuadTexCoords = @ \o makeQuadTextureCoord,
            !.QuadIndices = @ \o makeQuadIndices(v, Len(verts)) ]

\* the rectangles load() draws: red 2x2 at -1.2, blue 1x1 at -1.1
RedRect(v) == [ w |-> 20, h |-> 20, z |-> IF v = "gl21vbo" THEN -10 ELSE -12,
                clr |-> << 1, 0, 0, 1 >> ]
BlueRect(v) == [ w |-> 10, h |-> 10, z |-> IF v = "gl21vbo" THEN -10 ELSE -11,
                 clr |-> IF v = "gles20ms" THEN << 0, 0, 255, 1 >>
                         ELSE << 0, 0, 1, 1 >> ]

\* rectangles offered to DrawRectangle in SpecBatch
Rects(v) == { RedRect(v), BlueRect(v) }

\* NQuads that divides by the vertices of a quad
NQuads_ByVertices(q) == Len(q.QuadIndices) \div verticesPerQuad

NQuads(q) == Len(q.QuadIndices) \div indicesPerQuad

-----------------------------------------------------------------------------
(* The OpenGL context, as far as the programs drive it.  A call is a     *)
(* record [f |-> name, a |-> arguments]; the EXT spellings of the desktop *)
(* programs (BindFramebufferEXT, FRAMEBUFFER_EXT, ...) are written        *)
(* without the suffix.  Object names are handed out in order of creation. *)

Call(f, a) == [ f |-> f, a |-> a ]

\* a handle argument names the field that holds it: <<"off", "fbo">> is
\* ctxFramebuffer.fbo; Zero is the literal 0
Zero == << "none", "zero" >>

H(st, r) == IF r[1] = "none" THEN 0 ELSE st.ctx[r[1]][r[2]]

\* the context right after MakeContextCurrent
GLInit ==
    [ fbDraw |-> 0, fbRead |-> 0, program |-> 0,
      clearColor |-> << 0, 0, 0, 0 >>, enabled |-> {}, depthFunc |-> "LESS",
      tex2D |-> 0, texMS |-> 0, rbo |-> 0, vao |-> 0,
      arrayBuf |-> 0, elemBuf |-> 0, attribs |-> {} ]

ObjInit ==
    [ fbo |-> << >>, tex |-> << >>, rbo |-> << >>, buf |-> << >>,
      vao |-> << >>, program |-> << >> ]

CtxInit ==
    [ screen |-> [ program |-> 0, vbo |-> 0, ibo |-> 0, vao |-> 0 ],
      off |-> [ program |-> 0, fbo |-> 0, fboTexture |-> 0,
                fboRenderbuffer |-> 0, vbo |-> 0, ibo |-> 0, vao |-> 0 ],
      blitz |-> [ fbo |-> 0, fboTexture |-> 0 ] ]

NewObject(kind) ==
    CASE kind = "fbo" -> [ color |-> 0, colorTarget |-> "none", samples |-> 0,
                           depthStencil |-> 0 ]
      [] kind = "tex" -> [ target |-> "none", format |-> "none", w |-> 0, h |-> 0 ]
      [] kind = "rbo" -> [ format |-> "none", samples |-> 0, w |-> 0, h |-> 0 ]
      [] kind = "buf" -> [ size |-> 0, regions |-> << >> ]
      [] OTHER -> [ kind |-> kind ]

GenKind(f) ==
    CASE f = "GenFramebuffers" -> "fbo"
      [] f = "GenTextures" -> "tex"
      [] f = "GenRenderbuffers" -> "rbo"
      [] f = "GenBuffers" -> "buf"
      [] f = "GenVertexArrays" -> "vao"
      [] OTHER -> "program"

GenCalls == { "GenFramebuffers", "GenTextures", "GenRenderbuffers", "GenBuffers",
              "GenVertexArrays" }

\* glGen*(1, &field): a fresh name, stored through the pointer
Gen(st, kind, r) ==
    [ st EXCEPT !.obj[kind] = Append(@, NewObject(kind)),
                !.ctx[r[1]][r[2]] = Len(st.obj[kind]) + 1 ]

\* the framebuffer object an attachment call with this target works on
BoundFbo(st, target) ==
    IF target = "READ_FRAMEBUFFER" THEN st.gl.fbRead ELSE st.gl.fbDraw

BoundTex(st, target) ==
    IF target = "TEXTURE_2D" THEN st.gl.tex2D ELSE st.gl.texMS

BoundBuf(st, target) ==
    IF target = "ARRAY_BUFFER" THEN st.gl.arrayBuf ELSE st.gl.elemBuf

\* glBufferSubData replaces what the buffer holds at that offset
WriteRegion(regions, offset, bytes, data) ==
    SelectSeq(regions, LAMBDA r : r.offset # offset)
        \o << [ offset |-> offset, bytes |-> bytes, data |-> data ] >>

\* the effect of one call on the context, the objects and the handle fields
Apply(st, c) ==
    LET a == c.a IN
    CASE c.f = "BindFramebuffer" ->
           [ st EXCEPT
               !.gl.fbDraw = IF a[1] = "READ_FRAMEBUFFER" THEN @ ELSE H(st, a[2]),
               !.gl.fbRead = IF a[1] = "DRAW_FRAMEBUFFER" THEN @ ELSE H(st, a[2]) ]
      [] c.f = "UseProgram" -> [ st EXCEPT !.gl.program = H(st, a[1]) ]
      [] c.f = "ClearColor" -> [ st EXCEPT !.gl.clearColor = a ]
      [] c.f = "Enable" -> [ st EXCEPT !.gl.enabled = @ \cup { a[1] } ]
      [] c.f = "Disable" -> [ st EXCEPT !.gl.enabled = @ \ { a[1] } ]
      [] c.f = "DepthFunc" -> [ st EXCEPT !.gl.depthFunc = a[1] ]
      [] c.f \in GenCalls -> Gen(st, GenKind(c.f), a[1])
      [] c.f = "newProgram" ->
           IF a[2] = "ok" THEN Gen(st, "program", a[1]) ELSE st
      [] c.f = "BindTexture" ->
           LET n == H(st, a[2])
               s1 == IF a[1] = "TEXTURE_2D" THEN [ st EXCEPT !.gl.tex2D = n ]
                                            ELSE [ st EXCEPT !.gl.texMS = n ]
           IN  IF n # 0 /\ st.obj.tex[n].target = "none"
               THEN [ s1 EXCEPT !.obj.tex[n].target = a[1] ]
               ELSE s1
      [] c.f = "TexImage2D" ->
           LET n == BoundTex(st, a[1])
           IN  IF n = 0 THEN st
               ELSE [ st EXCEPT !.obj.tex[n].format = a[2],
                                !.obj.tex[n].w = a[3], !.obj.tex[n].h = a[4] ]
      [] c.f \in { "FramebufferTexture2D", "FramebufferTexture2DMultisampleEXT" } ->
           LET fb == BoundFbo(st, a[1])
           IN  IF fb = 0 THEN st
               ELSE [ st EXCEPT !.obj.fbo[fb].color = H(st, a[4]),
                                !.obj.fbo[fb].colorTarget = a[3],
                                !.obj.fbo[fb].samples = a[5] ]
      [] c.f = "BindRenderbuffer" -> [ st EXCEPT !.gl.rbo = H(st, a[1]) ]
      [] c.f = "RenderbufferStorage" ->
           IF st.gl.rbo = 0 THEN st
           ELSE [ st EXCEPT !.obj.rbo[st.gl.rbo] =
                    [ format |-> a[2], samples |-> a[1], w |-> a[3], h |-> a[4] ] ]
      [] c.f = "FramebufferRenderbuffer" ->
           LET fb == BoundFbo(st, a[1])
           IN  IF fb = 0 THEN st
               ELSE [ st EXCEPT !.obj.fbo[fb].depthStencil = H(st, a[3]) ]
      [] c.f = "BindVertexArray" -> [ st EXCEPT !.gl.vao = H(st, a[1]) ]
      [] c.f = "BindBuffer" ->
           IF a[1] = "ARRAY_BUFFER"
           THEN [ st EXCEPT !.gl.arrayBuf = H(st, a[2]) ]
           ELSE [ st EXCEPT !.gl.elemBuf = H(st, a[2]) ]
      [] c.f = "BufferData" ->
           LET n == BoundBuf(st, a[1])
           IN  IF n = 0 THEN st
               ELSE [ st EXCEPT !.obj.buf[n] =
                        [ size |-> a[2],
                          regions |-> IF a[3] = << >> THEN << >>
                                      ELSE WriteRegion(<< >>, 0, a[2], a[3]) ] ]
      [] c.f = "BufferSubData" ->
           LET n == BoundBuf(st, a[1])
           IN  IF n = 0 THEN st
               ELSE [ st EXCEPT !.obj.buf[n].regions =
                        WriteRegion(@, a[2], a[3], a[4]) ]
      [] c.f = "EnableVertexAttribArray" ->
           [ st EXCEPT !.gl.attribs = @ \cup { a[1] } ]
      [] c.f = "DisableVertexAttribArray" ->
           [ st EXCEPT !.gl.attribs = @ \ { a[1] } ]
      [] OTHER -> st

\* a framebuffer status or an error code other than the good one, or a
\* shader program that does not build, ends the program by a panic
Panics_IgnoreStatus(c) ==
    \/ c.f = "GetError" /\ c.a[1] # "NO_ERROR"
    \/ c.f = "newProgram" /\ c.a[2] # "ok"

Panics(c) ==
    \/ c.f = "CheckFramebufferStatus" /\ c.a[2] # "FRAMEBUFFER_COMPLETE"
    \/ c.f = "GetError" /\ c.a[1] # "NO_ERROR"
    \/ c.f = "newProgram" /\ c.a[2] # "ok"

\* run the calls of a handler in order, from call i on; each call is
\* logged with the context it was issued in; a panic ends the run
RECURSIVE Exec(_, _, _)
Exec(st, calls, i) ==
    IF i > Len(calls) THEN st
    ELSE LET c == calls[i]
             s1 == [ Apply(st, c) EXCEPT
                       !.log = Append(@, [ f |-> c.f, a |-> c.a, gl |-> st.gl ]) ]
         IN  IF s1.panicked \/ Panics(c) THEN [ s1 EXCEPT !.panicked = TRUE ]
             ELSE Exec(s1, calls, i + 1)

-----------------------------------------------------------------------------
(* The handlers of the framebuffer programs, as the calls they make *)

FramebufferVariants == {"gles20ms", "gl32ms", "gl32fb"}

\* content scales GetContentScale may report, in tenths
DpiScales == {10, 15, 20}

\* results the GL may give to CheckFramebufferStatus and GetError
FramebufferStatuses ==
    { "FRAMEBUFFER_COMPLETE", "FRAMEBUFFER_INCOMPLETE_ATTACHMENT",
      "FRAMEBUFFER_UNSUPPORTED" }

GLErrors == { "NO_ERROR", "INVALID_OPERATION" }

\* windowWidth * int32(dpiScaleX): the scale loses its fraction first
WidthHDPI(v, d) == IF v = "gl32fb" THEN windowWidth ELSE windowWidth * (d[1] \div 10)

HeightHDPI(v, d) == IF v = "gl32fb" THEN windowHeight ELSE windowHeight * (d[2] \div 10)

\* bytes of one color value in the vertex buffer
BytesColor(v) == IF v = "gles20ms" THEN bytesUint8 ELSE bytesUint32

\* setupBuffers of the screen: bytes and offsets of its two streams
ScreenLayout(q) ==
    [ q EXCEPT !.BytesTotal = Len(q.QuadVertices) * bytesFloat32
                              + Len(q.QuadTexCoords) * bytesUint8,
               !.OffsetVertices = 0 * bytesFloat32,
               !.OffsetTexCoords = 0 * bytesFloat32
                                   + Len(q.QuadVertices) * bytesFloat32,
               !.OffsetIndices = 0 * bytesUint16 ]

\* OffLayout that adds the bytes to the BytesTotal the batch already has
OffLayout_Accumulate(v, q) ==
    LET texAt == 0 * bytesFloat32 + Len(q.QuadVertices) * bytesFloat32
    IN  [ q EXCEPT !.BytesTotal = @ + Len(q.QuadVertices) * bytesFloat32
                                  + Len(q.QuadTexCoords) * bytesUint8
                                  + Len(q.QuadColors) * BytesColor(v),
                   !.OffsetVertices = 0 * bytesFloat32,
                   !.OffsetTexCoords = texAt,
                   !.OffsetColors = texAt + Len(q.QuadTexCoords) * bytesUint8,
                   !.OffsetIndices = 0 * bytesUint16 ]

\* OffLayout with the colors placed as if a texture coordinate took 4 bytes
OffLayout_TexAsFloat(v, q) ==
    LET texAt == 0 * bytesFloat32 + Len(q.QuadVertices) * bytesFloat32
    IN  [ q EXCEPT !.BytesTotal = Len(q.QuadVertices) * bytesFloat32
                                  + Len(q.QuadTexCoords) * bytesUint8
                                  + Len(q.QuadColors) * BytesColor(v),
                   !.OffsetVertices = 0 * bytesFloat32,
                   !.OffsetTexCoords = texAt,
                   !.OffsetColors = texAt + Len(q.QuadTexCoords) * bytesFloat32,
                   !.OffsetIndices = 0 * bytesUint16 ]

\* setupBuffers of the offscreen target: bytes and offsets of its three streams
OffLayout(v, q) ==
    LET texAt == 0 * bytesFloat32 + Len(q.QuadVertices) * bytesFloat32
    IN  [ q EXCEPT !.BytesTotal = Len(q.QuadVertices) * bytesFloat32
                                  + Len(q.QuadTexCoords) * bytesUint8
                                  + Len(q.QuadColors) * BytesColor(v),
                   !.OffsetVertices = 0 * bytesFloat32,
                   !.OffsetTexCoords = texAt,
                   !.OffsetColors = texAt + Len(q.QuadTexCoords) * bytesUint8,
                   !.OffsetIndices = 0 * bytesUint16 ]

SetupGlobalsCalls ==
    << Call("ClearColor", << 10, 10, 0, 10 >>),
       Call("Clear", << {"COLOR_BUFFER_BIT", "DEPTH_BUFFER_BIT"} >>),
       Call("Enable", << "DEPTH_TEST" >>),
       Call("DepthFunc", << "LEQUAL" >>),
       Call("Enable", << "TEXTURE_2D" >>) >>

ScreenSetupProgramCalls(v, built) ==
    << Call("newProgram", << << "screen", "program" >>, built >>),
       Call("UseProgram", << << "screen", "program" >> >>),
       Call("GetAttribLocation", << "screen.vertexPosition" >>),
       Call("GetAttribLocation", << "screen.vertexTexCoord" >>),
       Call("UseProgram", << Zero >>) >>

OffSetupProgramCalls(v, built) ==
    << Call("newProgram", << << "off", "program" >>, built >>),
       Call("UseProgram", << << "off", "program" >> >>),
       Call("GetAttribLocation", << "off.vertexPosition" >>),
       Call("GetAttribLocation", << "off.vertexTexCoord" >>),
       Call("GetAttribLocation", << "off.vertexColor" >>),
       Call("UseProgram", << Zero >>) >>

OffSetupCameraCalls ==
    << Call("UseProgram", << << "off", "program" >> >>),
       Call("UniformMatrix4fv", << "projection" >>),
       Call("UniformMatrix4fv", << "camera" >>),
       Call("UniformMatrix4fv", << "model" >>),
       Call("UseProgram", << Zero >>) >>

\* UploadCalls with the colors copied to where the texture coordinates are
UploadCalls_ColorsAtTexCoords(v, c, q) ==
    << Call("GenBuffers", << << c, "vbo" >> >>),
       Call("GenBuffers", << << c, "ibo" >> >>),
       Call("BindBuffer", << "ARRAY_BUFFER", << c, "vbo" >> >>),
       Call("BufferData", << "ARRAY_BUFFER", q.BytesTotal, << >> >>),
       Call("BufferSubData", << "ARRAY_BUFFER", q.OffsetVertices,
                                Len(q.QuadVertices) * bytesFloat32, q.QuadVertices >>),
       Call("BufferSubData", << "ARRAY_BUFFER", q.OffsetTexCoords,
                                Len(q.QuadTexCoords) * bytesUint8, q.QuadTexCoords >>) >>
    \o ( IF c = "off"
         THEN << Call("BufferSubData", << "ARRAY_BUFFER", q.OffsetTexCoords,
                                          Len(q.QuadColors) * BytesColor(v),
                                          q.QuadColors >>) >>
         ELSE << >> )
    \o << Call("BindBuffer", << "ARRAY_BUFFER", Zero >>),
          Call("BindBuffer", << "ELEMENT_ARRAY_BUFFER", << c, "ibo" >> >>),
          Call("BufferData", << "ELEMENT_ARRAY_BUFFER",
                                Len(q.QuadIndices) * bytesUint16, q.QuadIndices >>),
          Call("BindBuffer", << "ELEMENT_ARRAY_BUFFER", Zero >>) >>

\* the vertex and index uploads of a setupBuffers; c is "screen" or "off"
UploadCalls(v, c, q) ==
    << Call("GenBuffers", << << c, "vbo" >> >>),
       Call("GenBuffers", << << c, "ibo" >> >>),
       Call("BindBuffer", << "ARRAY_BUFFER", << c, "vbo" >> >>),
       Call("BufferData", << "ARRAY_BUFFER", q.BytesTotal, << >> >>),
       Call("BufferSubData", << "ARRAY_BUFFER", q.OffsetVertices,
                                Len(q.QuadVertices) * bytesFloat32, q.QuadVertices >>),
       Call("BufferSubData", << "ARRAY_BUFFER", q.OffsetTexCoords,
                                Len(q.QuadTexCoords) * bytesUint8, q.QuadTexCoords >>) >>
    \o ( IF c = "off"
         THEN << Call("BufferSubData", << "ARRAY_BUFFER", q.OffsetColors,
                                          Len(q.QuadColors) * BytesColor(v),
                                          q.QuadColors >>) >>
         ELSE << >> )
    \o << Call("BindBuffer", << "ARRAY_BUFFER", Zero >>),
          Call("BindBuffer", << "ELEMENT_ARRAY_BUFFER", << c, "ibo" >> >>),
          Call("BufferData", << "ELEMENT_ARRAY_BUFFER",
                                Len(q.QuadIndices) * bytesUint16, q.QuadIndices >>),
          Call("BindBuffer", << "ELEMENT_ARRAY_BUFFER", Zero >>) >>

VertexArrayCalls(v, c) ==
    IF v = "gles20ms"
    THEN << Call("GenVertexArrays", << << c, "vao" >> >>),
            Call("BindVertexArray", << << c, "vao" >> >>) >>
    ELSE << >>

ScreenSetupBuffersCalls(v, q) ==
    << Call("UseProgram", << << "screen", "program" >> >>),
       Call("BindFramebuffer", << "FRAMEBUFFER", Zero >>) >>
    \o VertexArrayCalls(v, "screen")
    \o UploadCalls(v, "screen", q)
    \o ( IF v = "gles20ms" THEN << Call("DepthFunc", << "LEQUAL" >>) >> ELSE << >> )
    \o << Call("UseProgram", << Zero >>) >>

\* attachTexture of the single-sample targets; c is "off" or "blitz"
AttachTextureCalls(v, c, d) ==
    << Call("GenTextures", << << c, "fboTexture" >> >>),
       Call("BindTexture", << "TEXTURE_2D", << c, "fboTexture" >> >>),
       Call("TexImage2D", << "TEXTURE_2D", "RGB", WidthHDPI(v, d), HeightHDPI(v, d) >>),
       Call("TexParameteri", << "TEXTURE_2D", "TEXTURE_MIN_FILTER", "NEAREST" >>),
       Call("TexParameteri", << "TEXTURE_2D", "TEXTURE_MAG_FILTER", "NEAREST" >>) >>
    \o ( IF v = "gl32ms" THEN << >>
         ELSE << Call("BindTexture", << "TEXTURE_2D", Zero >>) >> )
    \o << Call("FramebufferTexture2D",
               << "FRAMEBUFFER", "COLOR_ATTACHMENT0", "TEXTURE_2D",
                  << c, "fboTexture" >>, 0 >>) >>

\* attachTextureMultisample: the texture gets no storage; errs[k] is what
\* the k-th CheckGLError reads
AttachTextureMultisampleCalls(errs) ==
    << Call("GenTextures", << << "off", "fboTexture" >> >>),
       Call("BindTexture", << "TEXTURE_2D_MULTISAMPLE", << "off", "fboTexture" >> >>),
       Call("GetError", << errs[1] >>),
       Call("GetError", << errs[2] >>),
       Call("BindTexture", << "TEXTURE_2D_MULTISAMPLE", Zero >>),
       Call("GetError", << errs[3] >>),
       Call("FramebufferTexture2DMultisampleEXT",
            << "FRAMEBUFFER", "COLOR_ATTACHMENT0", "TEXTURE_2D_MULTISAMPLE",
               << "off", "fboTexture" >>, msaaSamples >>),
       Call("GetError", << errs[4] >>) >>

\* attachRenderbuffer and attachRenderbufferMultisample
AttachRenderbufferCalls(v, d) ==
    << Call("GenRenderbuffers", << << "off", "fboRenderbuffer" >> >>),
       Call("BindRenderbuffer", << << "off", "fboRenderbuffer" >> >>),
       Call("RenderbufferStorage",
            << IF v = "gles20ms" THEN msaaSamples ELSE 0, "DEPTH24_STENCIL8",
               WidthHDPI(v, d), HeightHDPI(v, d) >>),
       Call("BindRenderbuffer", << Zero >>),
       Call("FramebufferRenderbuffer",
            << "FRAMEBUFFER", "DEPTH_STENCIL_ATTACHMENT",
               << "off", "fboRenderbuffer" >> >>) >>

\* setupBuffers of the offscreen target (q has its layout computed)
OffSetupBuffersCalls(v, q, d, status, errs) ==
    << Call("UseProgram", << << "off", "program" >> >>),
       Call("GenFramebuffers", << << "off", "fbo" >> >>),
       Call("BindFramebuffer", << "FRAMEBUFFER", << "off", "fbo" >> >>) >>
    \o ( IF v = "gles20ms" THEN AttachTextureMultisampleCalls(errs)
                           ELSE AttachTextureCalls(v, "off", d) )
    \o AttachRenderbufferCalls(v, d)
    \o << Call("CheckFramebufferStatus", << "FRAMEBUFFER", status >>) >>
    \o VertexArrayCalls(v, "off")
    \o UploadCalls(v, "off", q)
    \o << Call("BindFramebuffer", << "FRAMEBUFFER", Zero >>),
          Call("UseProgram", << Zero >>) >>

\* ContextFramebuffer.setupBuffers of the multisample program: the target
\* the blit resolves into
BlitzSetupBuffersCalls(v, d, status) ==
    << Call("GenFramebuffers", << << "blitz", "fbo" >> >>),
       Call("BindFramebuffer", << "FRAMEBUFFER", << "blitz", "fbo" >> >>) >>
    \o AttachTextureCalls(v, "blitz", d)
    \o << Call("CheckFramebufferStatus", << "FRAMEBUFFER", status >>),
          Call("BindFramebuffer", << "FRAMEBUFFER", Zero >>) >>

-----------------------------------------------------------------------------
(* The frame: draw() and what it calls *)

\* bind of the offscreen target (bindProxyScreen in the first program)
OffBindCalls_NoDepthEnable(v) ==
    IF v = "gles20ms"
    THEN << Call("BindFramebuffer", << "FRAMEBUFFER", << "off", "fbo" >> >>),
            Call("BindFramebuffer", << "READ_FRAMEBUFFER", << "off", "fbo" >> >>),
            Call("BindFramebuffer", << "DRAW_FRAMEBUFFER", << "off", "fbo" >> >>),
            Call("UseProgram", << << "off", "program" >> >>),
            Call("ClearColor", << 5, 5, 5, 0 >>),
            Call("Clear", << {"COLOR_BUFFER_BIT", "DEPTH_BUFFER_BIT"} >>),
            Call("Enable", << "MULTISAMPLE_EXT" >>) >>
    ELSE << Call("UseProgram", << << "off", "program" >> >>),
            Call("BindFramebuffer", << "FRAMEBUFFER", << "off", "fbo" >> >>),
            Call("ClearColor", << 5, 5, 5, 10 >>),
            Call("Clear", << {"COLOR_BUFFER_BIT", "DEPTH_BUFFER_BIT"} >>) >>

OffBindCalls(v) ==
    IF v = "gles20ms"
    THEN << Call("BindFramebuffer", << "FRAMEBUFFER", << "off", "fbo" >> >>),
            Call("BindFramebuffer", << "READ_FRAMEBUFFER", << "off", "fbo" >> >>),
            Call("BindFramebuffer", << "DRAW_FRAMEBUFFER", << "off", "fbo" >> >>),
            Call("UseProgram", << << "off", "program" >> >>),
            Call("ClearColor", << 5, 5, 5, 0 >>),
            Call("Clear", << {"COLOR_BUFFER_BIT", "DEPTH_BUFFER_BIT"} >>),
            Call("Enable", << "DEPTH_TEST" >>),
            Call("Enable", << "MULTISAMPLE_EXT" >>) >>
    ELSE << Call("UseProgram", << << "off", "program" >> >>),
            Call("BindFramebuffer", << "FRAMEBUFFER", << "off", "fbo" >> >>),
            Call("ClearColor", << 5, 5, 5, 10 >>),
            Call("Clear", << {"COLOR_BUFFER_BIT", "DEPTH_BUFFER_BIT"} >>),
            Call("Enable", << "DEPTH_TEST" >>) >>

\* the colors RandomColorInRGBA may return: each of r, g, b is below 255,
\* alpha is 1
RandomColors == { << 0, 0, 0, 1 >>, << 254, 17, 0, 1 >> }

\* a color stream with one (r,g,b,a) per quad instead of one per vertex
ColorsOf_OnePerQuad(cs) ==
    [ i \in 1..(vertexColorSize * Len(cs)) |->
        cs[((i - 1) \div vertexColorSize) + 1][((i - 1) % vertexColorSize) + 1] ]
      \o << >>

\* the color stream of quads colored cs[1], cs[2], ...
RECURSIVE ColorsOf(_)
ColorsOf(cs) ==
    IF cs = << >> THEN << >> ELSE makeQuadColors(Head(cs)) \o ColorsOf(Tail(cs))

\* draw of the offscreen target; q holds the colors this frame draws
OffDrawCalls(v, q) ==
    << Call("BindBuffer", << "ARRAY_BUFFER", << "off", "vbo" >> >>),
       Call("BindBuffer", << "ELEMENT_ARRAY_BUFFER", << "off", "ibo" >> >>) >>
    \o ( IF v = "gles20ms"
         THEN << Call("ActiveTexture", << "TEXTURE0" >>),
                 Call("BindTexture", << "TEXTURE_2D_MULTISAMPLE",
                                        << "off", "fboTexture" >> >>) >>
         ELSE << >> )
    \o << Call("EnableVertexAttribArray", << "off.vertexPosition" >>),
          Call("EnableVertexAttribArray", << "off.vertexTexCoord" >>),
          Call("EnableVertexAttribArray", << "off.vertexColor" >>) >>
    \o ( IF v = "gles20ms"
         THEN << Call("BufferSubData", << "ARRAY_BUFFER", q.OffsetColors,
                                          Len(q.QuadColors) * bytesUint8,
                                          q.QuadColors >>) >>
         ELSE << >> )
    \o << Call("VertexAttribPointer",
               << "off.vertexPosition", vertexPositionSize, "FLOAT", FALSE,
                  q.OffsetVertices >>),
          Call("VertexAttribPointer",
               << "off.vertexTexCoord", vertexTexCoordSize, "UNSIGNED_BYTE", FALSE,
                  q.OffsetTexCoords >>),
          Call("VertexAttribPointer",
               << "off.vertexColor", vertexColorSize,
                  IF v = "gles20ms" THEN "UNSIGNED_BYTE" ELSE "UNSIGNED_INT",
                  v = "gles20ms", q.OffsetColors >>),
          Call("DrawElements",
               << "TRIANGLES", Len(q.QuadIndices), "UNSIGNED_SHORT",
                  IF v = "gl32fb" THEN 0 * bytesUint16 ELSE q.OffsetIndices >>),
          Call("BindBuffer", << "ARRAY_BUFFER", Zero >>),
          Call("BindBuffer", << "ELEMENT_ARRAY_BUFFER", Zero >>) >>
    \o ( IF v = "gles20ms"
         THEN << Call("BindTexture", << "TEXTURE_2D_MULTISAMPLE", Zero >>) >>
         ELSE << >> )
    \o << Call("DisableVertexAttribArray", << "off.vertexPosition" >>),
          Call("DisableVertexAttribArray", << "off.vertexTexCoord" >>),
          Call("DisableVertexAttribArray", << "off.vertexColor" >>) >>

\* a bind that reads from the resolve target and draws into the multisample one
BlitzBindCalls_Swapped ==
    << Call("BindFramebuffer", << "READ_FRAMEBUFFER", << "blitz", "fbo" >> >>),
       Call("BindFramebuffer", << "DRAW_FRAMEBUFFER", << "off", "fbo" >> >>),
       Call("FramebufferTexture2D",
            << "READ_FRAMEBUFFER", "COLOR_ATTACHMENT0", "TEXTURE_2D",
               << "blitz", "fboTexture" >>, 0 >>),
       Call("FramebufferTexture2D",
            << "DRAW_FRAMEBUFFER", "COLOR_ATTACHMENT0", "TEXTURE_2D_MULTISAMPLE",
               << "off", "fboTexture" >>, 0 >>) >>

\* a bind that creates the resolve texture anew in every frame
BlitzBindCalls_NewTexture ==
    << Call("BindFramebuffer", << "READ_FRAMEBUFFER", << "off", "fbo" >> >>),
       Call("BindFramebuffer", << "DRAW_FRAMEBUFFER", << "blitz", "fbo" >> >>),
       Call("GenTextures", << << "blitz", "fboTexture" >> >>),
       Call("FramebufferTexture2D",
            << "READ_FRAMEBUFFER", "COLOR_ATTACHMENT0", "TEXTURE_2D_MULTISAMPLE",
               << "off", "fboTexture" >>, 0 >>),
       Call("FramebufferTexture2D",
            << "DRAW_FRAMEBUFFER", "COLOR_ATTACHMENT0", "TEXTURE_2D",
               << "blitz", "fboTexture" >>, 0 >>) >>

\* ContextFramebuffer.bind of the multisample program
BlitzBindCalls ==
    << Call("BindFramebuffer", << "READ_FRAMEBUFFER", << "off", "fbo" >> >>),
       Call("BindFramebuffer", << "DRAW_FRAMEBUFFER", << "blitz", "fbo" >> >>),
       Call("FramebufferTexture2D",
            << "READ_FRAMEBUFFER", "COLOR_ATTACHMENT0", "TEXTURE_2D_MULTISAMPLE",
               << "off", "fboTexture" >>, 0 >>),
       Call("FramebufferTexture2D",
            << "DRAW_FRAMEBUFFER", "COLOR_ATTACHMENT0", "TEXTURE_2D",
               << "blitz", "fboTexture" >>, 0 >>) >>

\* a blit of the window's logical size, whatever the content scale
BlitzDrawCalls_WindowSize(v, d) ==
    << Call("BlitFramebuffer",
            << 0, 0, windowWidth, windowHeight,
               0, 0, windowWidth, windowHeight,
               {"COLOR_BUFFER_BIT"}, "NEAREST" >>) >>

\* ContextFramebuffer.draw of the multisample program
BlitzDrawCalls(v, d) ==
    << Call("BlitFramebuffer",
            << 0, 0, WidthHDPI(v, d), HeightHDPI(v, d),
               0, 0, WidthHDPI(v, d), HeightHDPI(v, d),
               {"COLOR_BUFFER_BIT"}, "NEAREST" >>) >>

ScreenBindCalls_OpaqueClear(v) ==
    IF v = "gles20ms"
    THEN << Call("BindFramebuffer", << "FRAMEBUFFER", Zero >>),
            Call("BindFramebuffer", << "READ_FRAMEBUFFER", Zero >>),
            Call("BindFramebuffer", << "DRAW_FRAMEBUFFER", Zero >>),
            Call("UseProgram", << << "screen", "program" >> >>),
            Call("ClearColor", << 0, 0, 0, 10 >>),
            Call("Clear", << {"COLOR_BUFFER_BIT"} >>),
            Call("Disable", << "DEPTH_TEST" >>),
            Call("Enable", << "MULTISAMPLE_EXT" >>) >>
    ELSE << Call("UseProgram", << << "screen", "program" >> >>),
            Call("BindFramebuffer", << "FRAMEBUFFER", Zero >>),
            Call("ClearColor", << 0, 0, 0, 10 >>),
            Call("Clear", << {"COLOR_BUFFER_BIT"} >>),
            Call("Disable", << "DEPTH_TEST" >>) >>

\* bind of the screen (unbindProxyScreen in the first program)
ScreenBindCalls(v) ==
    IF v = "gles20ms"
    THEN << Call("BindFramebuffer", << "FRAMEBUFFER", Zero >>),
            Call("BindFramebuffer", << "READ_FRAMEBUFFER", Zero >>),
            Call("BindFramebuffer", << "DRAW_FRAMEBUFFER", Zero >>),
            Call("UseProgram", << << "screen", "program" >> >>),
            Call("ClearColor", << 0, 0, 0, 0 >>),
            Call("Clear", << {"COLOR_BUFFER_BIT"} >>),
            Call("Disable", << "DEPTH_TEST" >>),
            Call("Enable", << "MULTISAMPLE_EXT" >>) >>
    ELSE << Call("UseProgram", << << "screen", "program" >> >>),
            Call("BindFramebuffer", << "FRAMEBUFFER", Zero >>),
            Call("ClearColor", << 0, 0, 0, 10 >>),
            Call("Clear", << {"COLOR_BUFFER_BIT"} >>),
            Call("Disable", << "DEPTH_TEST" >>) >>

ScreenTexture_Offscreen(v) == << "off", "fboTexture" >>

\* the texture the screen quad is drawn with
ScreenTexture(v) ==
    IF v = "gles20ms" THEN << "blitz", "fboTexture" >> ELSE << "off", "fboTexture" >>

\* draw of the screen; renderProxyToScreen of the first program is empty
ScreenDrawCalls(v, q) ==
    IF v = "gl32fb" THEN << >>
    ELSE
    << Call("BindBuffer", << "ARRAY_BUFFER", << "screen", "vbo" >> >>),
       Call("BindBuffer", << "ELEMENT_ARRAY_BUFFER", << "screen", "ibo" >> >>) >>
    \o ( IF v = "gles20ms" THEN << Call("ActiveTexture", << "TEXTURE0" >>) >>
                           ELSE << >> )
    \o << Call("BindTexture", << "TEXTURE_2D", ScreenTexture(v) >>),
          Call("EnableVertexAttribArray", << "screen.vertexPosition" >>),
          Call("EnableVertexAttribArray", << "screen.vertexTexCoord" >>),
          Call("VertexAttribPointer",
               << "screen.vertexPosition", vertexPositionSize, "FLOAT", FALSE,
                  q.OffsetVertices >>),
          Call("VertexAttribPointer",
               << "screen.vertexTexCoord", vertexTexCoordSize, "UNSIGNED_BYTE",
                  FALSE, q.OffsetTexCoords >>),
          Call("DrawElements",
               << "TRIANGLES", Len(q.QuadIndices), "UNSIGNED_SHORT",
                  q.OffsetIndices >>),
          Call("BindBuffer", << "ARRAY_BUFFER", Zero >>),
          Call("BindBuffer", << "ELEMENT_ARRAY_BUFFER", Zero >>),
          Call("BindTexture", << "TEXTURE_2D", Zero >>),
          Call("DisableVertexAttribArray", << "screen.vertexPosition" >>),
          Call("DisableVertexAttribArray", << "screen.vertexTexCoord" >>) >>

-----------------------------------------------------------------------------
(* SpecBatch: the batch operations under arbitrary call sequences *)

\* bookkeeping of the calls made: the last operation, the vertex count the
\* batch held before it, the DrawRectangle calls so far
NoCall == [ op |-> "none", vertsBefore |-> 0, appended |-> 0 ]

\* the quad count at which 4 * count no longer fits a uint16
WrapQuads == Uint16Mod \div verticesPerQuad

\* quad counts of the batches whose next DrawRectangle is probed
ProbeCounts ==
    (0..ProbeQuads) \cup ((WrapQuads - ProbeNear)..(WrapQuads + ProbeNear))

NoProbe == [ quadsBefore |-> 0, done |-> FALSE, indices |-> << >> ]

InitBatch ==
    /\ variant \in Variants
    /\ off = NewElementQuads
    /\ scr = NewElementQuads
    /\ last = NoCall
    /\ dpi = << 10, 10 >>
    /\ gl = GLInit
    /\ obj = ObjInit
    /\ ctx = CtxInit
    /\ frame = 0
    /\ log = << >>
    /\ \/ /\ pc = "batch"
          /\ probe = NoProbe
       \/ /\ pc = "index"
          /\ \E n \in ProbeCounts : probe = [ NoProbe EXCEPT !.quadsBefore = n ]

DrawRectangle(r) ==
    /\ pc = "batch"
    /\ last.appended < MaxQuads
    /\ off' = AppendQuad(variant, off, r.w, r.h, r.z, r.clr)
    /\ last' = [ op |-> "DrawRectangle",
                 vertsBefore |-> Len(off.QuadVertices) \div vertexPositionSize,
                 appended |-> last.appended + 1 ]
    /\ UNCHANGED <<variant, pc, scr, probe>>
    /\ UNCHANGED glVars

ScreenLoad ==
    /\ pc = "batch"
    /\ variant \in ScreenBatchVariants
    /\ scr = NewElementQuads
    /\ scr' = ScreenQuads(variant)
    /\ last' = [ last EXCEPT !.op = "ScreenLoad", !.vertsBefore = 0 ]
    /\ UNCHANGED <<variant, pc, off, probe>>
    /\ UNCHANGED glVars

\* the index generation of DrawRectangle(r) on a batch of probe.quadsBefore
\* quads: the position array has grown by the new quad's floats when
\* makeQuadIndices reads its length
ProbeIndices(r) ==
    /\ pc = "index"
    /\ ~probe.done
    /\ LET before == probe.quadsBefore * verticesPerQuad * vertexPositionSize
           after == before + Len(makeQuadVertices(r.w, r.h, r.z))
       IN  probe' = [ probe EXCEPT !.done = TRUE,
                                   !.indices = makeQuadIndices(variant, after) ]
    /\ UNCHANGED <<variant, pc, off, scr, last>>
    /\ UNCHANGED glVars

NextBatch ==
    \/ \E r \in Rects(variant) : DrawRectangle(r)
    \/ ScreenLoad
    \/ \E r \in Rects(variant) : ProbeIndices(r)

SpecBatch == InitBatch /\ [][NextBatch]_vars

-----------------------------------------------------------------------------
(* Spec: the framebuffer programs from load() through the frame loop *)

\* the functions setup() calls, in its order
SetupOrder(v) ==
    CASE v = "gles20ms" ->
           << "ScreenSetupProgram", "ScreenSetupBuffers", "OffSetupProgram",
              "OffSetupBuffers", "OffSetupCamera", "BlitzSetupBuffers" >>
      [] v = "gl32ms" ->
           << "SetupGlobals", "ScreenSetupProgram", "ScreenSetupBuffers",
              "OffSetupProgram", "OffSetupBuffers", "OffSetupCamera" >>
      [] v \in SingleTargetPrograms -> << "SingleSetup" >>
      [] OTHER ->
           << "SetupGlobals", "ScreenSetupProgram", "OffSetupProgram",
              "OffSetupBuffers", "OffSetupCamera" >>

FrameOrder_BlitFirst(v) ==
    ( CASE v = "gles20ms" ->
             << "OffBind", "BlitzBind", "BlitzDraw", "OffDraw", "ScreenBind",
                "ScreenDraw" >>
        [] OTHER ->
             << "OffBind", "OffDraw", "ScreenBind", "ScreenDraw", "CheckGLError" >> )
    \o << "SwapBuffers", "PollEvents" >>

\* the functions draw() calls, in its order, then the rest of the loop body
FrameOrder(v) ==
    ( CASE v = "gles20ms" ->
             << "OffBind", "OffDraw", "BlitzBind", "BlitzDraw", "ScreenBind",
                "ScreenDraw" >>
        [] v \in SingleTargetPrograms -> << "SingleDraw" >>
        [] OTHER ->
             << "OffBind", "OffDraw", "ScreenBind", "ScreenDraw", "CheckGLError" >> )
    \o << "SwapBuffers", "PollEvents" >>

\* where the program goes after the function at, in main()
After(v, at) ==
    LET order == IF \E i \in 1..Len(SetupOrder(v)) : SetupOrder(v)[i] = at
                 THEN SetupOrder(v) ELSE FrameOrder(v)
        i == CHOOSE k \in 1..Len(order) : order[k] = at
    IN  IF i < Len(order) THEN order[i + 1] ELSE "ShouldClose"

World == [ gl |-> gl, obj |-> obj, ctx |-> ctx, log |-> log, panicked |-> FALSE ]

\* the program makes these calls at pc and, unless one panics, goes on
Run(at, calls) ==
    /\ pc = at
    /\ LET r == Exec(World, calls, 1)
       IN  /\ gl' = r.gl
           /\ obj' = r.obj
           /\ ctx' = r.ctx
           /\ log' = r.log
           /\ pc' = IF r.panicked THEN "panic" ELSE After(variant, at)

Init ==
    /\ variant \in FramebufferVariants
    /\ pc = "load"
    /\ off = NewElementQuads
    /\ scr = NewElementQuads
    /\ last = NoCall
    /\ probe = NoProbe
    /\ dpi \in IF variant = "gl32fb" THEN { << 10, 10 >> } ELSE DpiScales \X DpiScales
    /\ gl = GLInit
    /\ obj = ObjInit
    /\ ctx = CtxInit
    /\ frame = 0
    /\ log = << >>

\* load() that draws the red rectangle only
Load_RedOnly ==
    /\ pc = "load"
    /\ scr' = IF variant \in ScreenBatchVariants THEN ScreenQuads(variant) ELSE scr
    /\ LET red == RedRect(variant)
       IN  off' = AppendQuad(variant, off, red.w, red.h, red.z, red.clr)
    /\ pc' = SetupOrder(variant)[1]
    /\ UNCHANGED <<variant, last, probe, dpi, gl, obj, ctx, frame, log>>

\* what DebugPrint writes: the rectangle count and the raw stream lengths
DebugPrint(q) ==
    [ Rectangles |-> Len(q.QuadIndices) \div indicesPerQuad,
      Vertices |-> Len(q.QuadVertices),
      TexCoord |-> Len(q.QuadTexCoords),
      Colors |-> Len(q.QuadColors),
      Indices |-> Len(q.QuadIndices) ]

Load ==
    /\ pc = "load"
    /\ scr' = IF variant \in ScreenBatchVariants THEN ScreenQuads(variant) ELSE scr
    /\ LET red == RedRect(variant)
           blue == BlueRect(variant)
           q1 == AppendQuad(variant, off, red.w, red.h, red.z, red.clr)
       IN  off' = AppendQuad(variant, q1, blue.w, blue.h, blue.z, blue.clr)
    /\ pc' = SetupOrder(variant)[1]
    /\ UNCHANGED <<variant, last, probe, dpi, gl, obj, ctx, frame, log>>

SetupGlobals ==
    /\ Run("SetupGlobals", SetupGlobalsCalls)
    /\ UNCHANGED <<variant, off, scr, last, probe, dpi, frame>>

ScreenSetupProgram ==
    /\ \E built \in {"ok", "error"} :
         Run("ScreenSetupProgram", ScreenSetupProgramCalls(variant, built))
    /\ UNCHANGED <<variant, off, scr, last, probe, dpi, frame>>

ScreenSetupBuffers ==
    /\ scr' = ScreenLayout(scr)
    /\ Run("ScreenSetupBuffers", ScreenSetupBuffersCalls(variant, ScreenLayout(scr)))
    /\ UNCHANGED <<variant, off, last, probe, dpi, frame>>

OffSetupProgram ==
    /\ \E built \in {"ok", "error"} :
         Run("OffSetupProgram", OffSetupProgramCalls(variant, built))
    /\ UNCHANGED <<variant, off, scr, last, probe, dpi, frame>>

\* at most one of the four CheckGLError calls of attachTextureMultisample
\* finds an error pending: errAt says which
ErrorsAt(errAt, e) == [ k \in 1..4 |-> IF k = errAt THEN e ELSE "NO_ERROR" ]

OffSetupBuffers ==
    /\ off' = OffLayout(variant, off)
    /\ \E status \in FramebufferStatuses :
       \E errAt \in IF variant = "gles20ms" THEN 0..4 ELSE {0} :
         Run("OffSetupBuffers",
             OffSetupBuffersCalls(variant, OffLayout(variant, off), dpi, status,
                                  ErrorsAt(errAt, "INVALID_OPERATION")))
    /\ UNCHANGED <<variant, scr, last, probe, dpi, frame>>

OffSetupCamera ==
    /\ Run("OffSetupCamera", OffSetupCameraCalls)
    /\ UNCHANGED <<variant, off, scr, last, probe, dpi, frame>>

BlitzSetupBuffers ==
    /\ \E status \in FramebufferStatuses :
         Run("BlitzSetupBuffers", BlitzSetupBuffersCalls(variant, dpi, status))
    /\ UNCHANGED <<variant, off, scr, last, probe, dpi, frame>>

\* for !window.ShouldClose(): leave the loop, or start the next frame (the
\* log then starts over with the calls of that frame)
ShouldClose ==
    /\ pc = "ShouldClose"
    /\ \/ /\ pc' = "exit"
          /\ UNCHANGED <<frame, log>>
       \/ /\ frame < MaxFrames
          /\ frame' = frame + 1
          /\ log' = << >>
          /\ pc' = FrameOrder(variant)[1]
    /\ UNCHANGED <<variant, off, scr, last, probe, dpi, gl, obj, ctx>>

OffBind ==
    /\ Run("OffBind", OffBindCalls(variant))
    /\ UNCHANGED <<variant, off, scr, last, probe, dpi, frame>>

\* the multisample program gives every quad a new random color first
OffDraw ==
    /\ \E cs \in [ 1..NQuads(off) -> RandomColors ] :
         LET q == IF variant = "gles20ms"
                  THEN [ off EXCEPT !.QuadColors = ColorsOf(cs \o << >>) ]
                  ELSE off
         IN  /\ off' = q
             /\ Run("OffDraw", OffDrawCalls(variant, q))
    /\ UNCHANGED <<variant, scr, last, probe, dpi, frame>>

BlitzBind ==
    /\ Run("BlitzBind", BlitzBindCalls)
    /\ UNCHANGED <<variant, off, scr, last, probe, dpi, frame>>

BlitzDraw ==
    /\ Run("BlitzDraw", BlitzDrawCalls(variant, dpi))
    /\ UNCHANGED <<variant, off, scr, last, probe, dpi, frame>>

ScreenBind ==
    /\ Run("ScreenBind", ScreenBindCalls(variant))
    /\ UNCHANGED <<variant, off, scr, last, probe, dpi, frame>>

ScreenDraw ==
    /\ Run("ScreenDraw", ScreenDrawCalls(variant, scr))
    /\ UNCHANGED <<variant, off, scr, last, probe, dpi, frame>>

\* checkGLError at the end of draw() of the desktop programs
CheckGLError ==
    /\ \E e \in GLErrors : Run("CheckGLError", << Call("GetError", << e >>) >>)
    /\ UNCHANGED <<variant, off, scr, last, probe, dpi, frame>>

\* time.Sleep (multisample program) and window.SwapBuffers
SwapBuffers ==
    /\ pc = "SwapBuffers"
    /\ pc' = After(variant, "SwapBuffers")
    /\ UNCHANGED <<variant, off, scr, last, probe, dpi, gl, obj, ctx, frame, log>>

\* programs that install fboSizeCallback
ResizeCallbackVariants == {"gles20ms", "gl32ms"}

\* glfw.PollEvents: nothing to deliver, or a size event, on which
\* fboSizeCallback panics
PollEvents ==
    /\ pc = "PollEvents"
    /\ \/ /\ pc' = After(variant, "PollEvents")
          /\ UNCHANGED last
       \/ /\ variant \in ResizeCallbackVariants
          /\ last' = [ last EXCEPT !.op = "fboSizeCallback" ]
          /\ pc' = "panic"
    /\ UNCHANGED <<variant, off, scr, probe, dpi, gl, obj, ctx, frame, log>>

Next ==
    \/ Load
    \/ SetupGlobals
    \/ ScreenSetupProgram
    \/ ScreenSetupBuffers
    \/ OffSetupProgram
    \/ OffSetupBuffers
    \/ OffSetupCamera
    \/ BlitzSetupBuffers
    \/ ShouldClose
    \/ OffBind
    \/ OffDraw
    \/ BlitzBind
    \/ BlitzDraw
    \/ ScreenBind
    \/ ScreenDraw
    \/ CheckGLError
    \/ SwapBuffers
    \/ PollEvents

Spec == Init /\ [][Next]_vars

-----------------------------------------------------------------------------
(* Claims about the quad batch (SpecBatch) *)

\* the 6 indices of a quad whose first vertex is number base
QuadAt(base) == << base, base + 1, base + 2, base, base + 2, base + 3 >>

\* the last 6 entries of an index stream
LastSix(idx) == SubSeq(idx, Len(idx) - 5, Len(idx))

\* the index type of the running program can hold every vertex number of a
\* batch of n quads
FitsIndexType(n) == variant \in Uint16Variants => verticesPerQuad * n <= Uint16Mod

\* C1 as stated: whatever the number of quads before it, the call's 6 indices
\* are base + {0,1,2,0,2,3} with base the vertex count before the call
C1_AnyCount ==
    /\ last.op = "DrawRectangle" =>
         LastSix(off.QuadIndices) = QuadAt(last.vertsBefore)
    /\ scr # NewElementQuads => scr.QuadIndices = QuadAt(0)
    /\ probe.done => probe.indices = QuadAt(verticesPerQuad * probe.quadsBefore)

\* C1 amended: the call's 6 indices are base + {0,1,2,0,2,3}, base being the
\* vertex count before the call, as long as the batch with the new quad
\* fits the index type (at most 16384 quads for uint16 indices); also for the
\* screen batch, whose position array is replaced wholesale
C1_IndexBase ==
    /\ (last.op = "DrawRectangle" /\ FitsIndexType(last.appended)) =>
         LastSix(off.QuadIndices) = QuadAt(last.vertsBefore)
    /\ scr # NewElementQuads => scr.QuadIndices = QuadAt(0)
    /\ (probe.done /\ FitsIndexType(probe.quadsBefore + 1)) =>
         probe.indices = QuadAt(verticesPerQuad * probe.quadsBefore)

C1_Witness ==
    /\ last.op = "DrawRectangle"
    /\ last.vertsBefore = 8
    /\ LastSix(off.QuadIndices) = << 8, 9, 10, 8, 10, 11 >>
    /\ scr.QuadIndices = << 0, 1, 2, 0, 2, 3 >>

\* C2: after N appends the streams hold 6N indices, 12N positions, 8N
\* texture coordinates (where kept) and 16N color values
C2_StreamLengths ==
    /\ Len(off.QuadIndices) = 6 * last.appended
    /\ Len(off.QuadVertices) = 12 * last.appended
    /\ variant \in TexVariants => Len(off.QuadTexCoords) = 8 * last.appended
    /\ Len(off.QuadColors) = 16 * last.appended

C2_Witness ==
    /\ last.appended = 3
    /\ variant \in TexVariants
    /\ Len(off.QuadIndices) = 18
    /\ Len(off.QuadTexCoords) = 24

\* every index of the k-th quad (k from 0) lies in 4k .. 4k+3, and the
\* largest index of a batch of n quads is 4n-1
OwnVerticesOnly(idx, n) ==
    /\ \A k \in 0..(n - 1) : \A j \in 1..6 :
         idx[6 * k + j] \in (4 * k)..(4 * k + 3)
    /\ \A i \in 1..Len(idx) : idx[i] <= 4 * n - 1
    /\ \E i \in 1..Len(idx) : idx[i] = 4 * n - 1

\* the same of the one quad a probe generated as quad number k
ProbeOwnVerticesOnly(idx, k) ==
    /\ \A j \in 1..6 : idx[j] \in (4 * k)..(4 * k + 3)
    /\ \E j \in 1..6 : idx[j] = 4 * (k + 1) - 1

\* C3 as stated: for every N >= 1
C3_AnyCount ==
    /\ last.appended >= 1 => OwnVerticesOnly(off.QuadIndices, last.appended)
    /\ probe.done => ProbeOwnVerticesOnly(probe.indices, probe.quadsBefore)

\* C3 amended: for every N >= 1 that fits the index type (N <= 16384 for
\* uint16 indices) the largest index is 4N-1 and the k-th quad's indices lie
\* in 4k .. 4k+3
C3_OwnRange ==
    /\ (last.appended >= 1 /\ FitsIndexType(last.appended)) =>
         OwnVerticesOnly(off.QuadIndices, last.appended)
    /\ (probe.done /\ FitsIndexType(probe.quadsBefore + 1)) =>
         ProbeOwnVerticesOnly(probe.indices, probe.quadsBefore)

C3_Witness ==
    /\ probe.done
    /\ variant \in Uint16Variants
    /\ probe.quadsBefore = WrapQuads - 1
    /\ probe.indices[6] = Uint16Mod - 1

-----------------------------------------------------------------------------
(* Claims about the frame pipeline (Spec) *)

\* draw() of the current frame has returned
DrawDone == frame >= 1 /\ pc \in {"SwapBuffers", "PollEvents", "ShouldClose", "exit"}

\* which render target a framebuffer name is
Role(n) ==
    IF n = 0 THEN "screen"
    ELSE IF n = ctx.off.fbo THEN "offscreen"
    ELSE IF n = ctx.blitz.fbo THEN "resolve"
    ELSE "other"

StageCalls == {"BindFramebuffer", "Clear", "DrawElements", "BlitFramebuffer"}

Stage(e) ==
    CASE e.f = "BindFramebuffer" -> << "bind", Role(H([ ctx |-> ctx ], e.a[2])) >>
      [] e.f = "Clear" -> << "clear", Role(e.gl.fbDraw) >>
      [] e.f = "DrawElements" -> << "draw", Role(e.gl.fbDraw) >>
      [] OTHER -> << "blit", Role(e.gl.fbRead), Role(e.gl.fbDraw) >>

\* s without immediate repetitions
RECURSIVE Collapse(_)
Collapse(s) ==
    IF Len(s) <= 1 THEN s
    ELSE IF s[1] = s[2] THEN Collapse(Tail(s))
    ELSE << s[1] >> \o Collapse(Tail(s))

\* the stages the calls of l go through
Stages(l) ==
    LET r == SelectSeq(l, LAMBDA e : e.f \in StageCalls)
    IN  Collapse([ i \in 1..Len(r) |-> Stage(r[i]) ] \o << >>)

IsPrefix(s, t) == Len(s) <= Len(t) /\ s = SubSeq(t, 1, Len(s))

Indices(l, f) == { i \in 1..Len(l) : l[i].f = f }

MultisampleStages ==
    << << "bind", "offscreen" >>, << "clear", "offscreen" >>,
       << "draw", "offscreen" >>,
       << "bind", "offscreen" >>, << "bind", "resolve" >>,
       << "blit", "offscreen", "resolve" >>,
       << "bind", "screen" >>, << "clear", "screen" >>, << "draw", "screen" >> >>

C4_StagesInOrder ==
    (variant = "gles20ms" /\ frame >= 1) =>
        /\ IsPrefix(Stages(log), MultisampleStages)
        /\ DrawDone => Stages(log) = MultisampleStages
        /\ \A k \in Indices(log, "DrawElements") :
             log[k].gl.fbDraw = ctx.off.fbo =>
                 /\ log[k].a[2] = Len(off.QuadIndices)
                 /\ log[k].a[2] = indicesPerQuad * 2

\* C4: every frame of the multisample program goes through offscreen bind
\* and clear, offscreen draw, bind of the resolve pair, blit, screen bind and
\* clear, screen draw, in this order, and the program never becomes another
\* one while it runs
C4_StageOrder == [] C4_StagesInOrder /\ [][variant' = variant]_vars

C4_Witness ==
    /\ variant = "gles20ms"
    /\ frame = 2
    /\ pc = "SwapBuffers"
    /\ Stages(log) = MultisampleStages

\* the draws of l into the framebuffer named n
DrawsInto(l, n) == { i \in Indices(l, "DrawElements") : l[i].gl.fbDraw = n }

\* C5: in a frame of the multisample program the blit reads the multisample
\* target after that frame's draw into it, and comes before the screen draw
\* and before any TEXTURE_2D bind of a texture; the texture bound at the
\* screen draw is the color attachment of the blit's destination, not the
\* multisample texture
C5_BlitBetween ==
    (variant = "gles20ms" /\ frame >= 1) =>
        /\ \A i \in Indices(log, "BlitFramebuffer") :
             /\ log[i].gl.fbRead = ctx.off.fbo
             /\ log[i].gl.fbDraw = ctx.blitz.fbo
             /\ \E j \in DrawsInto(log, ctx.off.fbo) : j < i
             /\ \A k \in DrawsInto(log, 0) : i < k
             /\ \A k \in Indices(log, "BindTexture") :
                  (log[k].a[1] = "TEXTURE_2D" /\ log[k].a[2] # Zero) => i < k
        /\ \A k \in DrawsInto(log, 0) :
             /\ \E i \in Indices(log, "BlitFramebuffer") :
                  /\ i < k
                  /\ log[k].gl.tex2D = obj.fbo[log[i].gl.fbDraw].color
             /\ log[k].gl.tex2D = ctx.blitz.fboTexture
             /\ log[k].gl.tex2D # ctx.off.fboTexture
             /\ log[k].gl.tex2D # 0

C5_Witness ==
    /\ variant = "gles20ms"
    /\ frame = 2
    /\ pc = "SwapBuffers"
    /\ \E i \in Indices(log, "BlitFramebuffer") : \E k \in DrawsInto(log, 0) :
         /\ i < k
         /\ log[k].gl.tex2D = obj.fbo[ctx.blitz.fbo].color
         /\ obj.tex[log[k].gl.tex2D].target = "TEXTURE_2D"

SingleSampleVariants == {"gl32ms", "gl32fb"}

\* C6 as stated: a frame of a single-sample program has no blit, and its
\* screen stage draws with the offscreen target's own color texture bound
C6_NoBlitOwnTexture ==
    (variant \in SingleSampleVariants /\ frame >= 1) =>
        /\ Indices(log, "BlitFramebuffer") = {}
        /\ \A k \in DrawsInto(log, 0) : log[k].gl.tex2D = ctx.off.fboTexture
        /\ DrawDone => \E k \in DrawsInto(log, 0) :
                         /\ log[k].gl.tex2D = ctx.off.fboTexture
                         /\ log[k].gl.tex2D # 0

\* the floats a vertex buffer holds from byte 0 on
PositionsIn(b) ==
    LET at0 == SelectSeq(b.regions, LAMBDA r : r.offset = 0)
    IN  IF at0 = << >> THEN << >> ELSE at0[1].data

\* the texture a screen stage is to show: the resolved one where the
\* offscreen target is multisampled, the offscreen one elsewhere
ShownTexture ==
    IF variant = "gles20ms" THEN ctx.blitz.fboTexture ELSE ctx.off.fboTexture

\* C7 as stated: in every framebuffer program, the screen stage of a frame
\* binds the default target, clears it and makes one indexed draw of one
\* quad (6 indices, 4 vertices at (+-1, +-1)) with the position and the
\* texture-coordinate attribute enabled and no other, the offscreen or
\* resolved texture bound
C7_ScreenQuad ==
    DrawDone =>
        /\ Cardinality(DrawsInto(log, 0)) = 1
        /\ \A k \in DrawsInto(log, 0) :
             /\ \E i \in Indices(log, "Clear") : i < k /\ log[i].gl.fbDraw = 0
             /\ log[k].a[2] = indicesPerQuad
             /\ log[k].gl.attribs = {"screen.vertexPosition", "screen.vertexTexCoord"}
             /\ log[k].gl.tex2D = ShownTexture
             /\ log[k].gl.tex2D # 0
             /\ log[k].gl.arrayBuf # 0
             /\ PositionsIn(obj.buf[log[k].gl.arrayBuf]) =
                  << 10, 10, 0, -10, 10, 0, -10, -10, 0, 10, -10, 0 >>

\* C8: when the offscreen draw of a frame is issued the depth test is
\* enabled and the depth function is LEQUAL; when the screen draw is issued
\* the depth test is disabled; in every frame of every framebuffer program
C8_DepthTest ==
    frame >= 1 =>
        /\ \A k \in DrawsInto(log, ctx.off.fbo) :
             /\ "DEPTH_TEST" \in log[k].gl.enabled
             /\ log[k].gl.depthFunc = "LEQUAL"
        /\ \A k \in DrawsInto(log, 0) : "DEPTH_TEST" \notin log[k].gl.enabled
        /\ pc = "OffDraw" =>
             ("DEPTH_TEST" \in gl.enabled /\ gl.depthFunc = "LEQUAL")
        /\ pc = "ScreenDraw" => "DEPTH_TEST" \notin gl.enabled

C8_Witness ==
    /\ frame = 3
    /\ pc = "SwapBuffers"
    /\ \E k \in DrawsInto(log, ctx.off.fbo) : "DEPTH_TEST" \in log[k].gl.enabled
    /\ \E k \in DrawsInto(log, 0) : "DEPTH_TEST" \notin log[k].gl.enabled

\* alpha of the clear color, in tenths
ClearAlpha(e) == e.gl.clearColor[4]

\* C9 as stated: every clear of a frame, offscreen and screen, in every
\* framebuffer program, has clear-color alpha 0
C9_AlphaZero ==
    frame >= 1 => \A i \in Indices(log, "Clear") : ClearAlpha(log[i]) = 0

\* C9 amended: every clear of the multisample program has clear-color
\* alpha 0; every clear of the two single-sample programs has alpha 1
C9_ClearAlpha ==
    \A i \in Indices(log, "Clear") :
        ClearAlpha(log[i]) = IF variant = "gles20ms" THEN 0 ELSE 10

C9_Witness ==
    /\ variant = "gles20ms"
    /\ DrawDone
    /\ \E i \in Indices(log, "Clear") :
         log[i].gl.fbDraw = ctx.off.fbo /\ ClearAlpha(log[i]) = 0
    /\ \E i \in Indices(log, "Clear") :
         log[i].gl.fbDraw = 0 /\ ClearAlpha(log[i]) = 0

AttachCalls ==
    { "FramebufferTexture2D", "FramebufferTexture2DMultisampleEXT",
      "FramebufferRenderbuffer" }

\* what a setupBuffers does after the probe
LaterSetupCalls ==
    { "GenVertexArrays", "BindVertexArray", "GenBuffers", "BindBuffer",
      "BufferData", "BufferSubData" }

\* the probe at l[i] comes after the attachments of the target bound then
\* and before anything else is set up; nothing is attached to it later
ProbeInPlace(l, i) ==
    LET made == { j \in Indices(l, "GenFramebuffers") : j < i }
        g == CHOOSE j \in made : \A m \in made : m <= j
        between == (g + 1)..(i - 1)
    IN  /\ made # {}
        /\ l[i].gl.fbDraw # 0
        /\ \E j \in between :
             l[j].f \in {"FramebufferTexture2D", "FramebufferTexture2DMultisampleEXT"}
        /\ l[i].gl.fbDraw = ctx.off.fbo =>
             \E j \in between : l[j].f = "FramebufferRenderbuffer"
        /\ \A j \in between : l[j].f \notin LaterSetupCalls
        /\ \A j \in (i + 1)..Len(l) :
             l[j].f \in AttachCalls => l[j].gl.fbDraw # l[i].gl.fbDraw

C10_ProbeInSetup ==
    /\ frame = 0 =>
         \A i \in Indices(log, "CheckFramebufferStatus") :
             /\ ProbeInPlace(log, i)
             /\ log[i].a[2] # "FRAMEBUFFER_COMPLETE" =>
                  (i = Len(log) /\ pc = "panic")
    /\ frame >= 1 => Indices(log, "CheckFramebufferStatus") = {}
    /\ (frame = 0 /\ pc = "ShouldClose") =>
         /\ Len(obj.fbo) = IF variant = "gles20ms" THEN 2 ELSE 1
         /\ Cardinality(Indices(log, "CheckFramebufferStatus")) = Len(obj.fbo)

\* C10: every offscreen target is probed for completeness after its
\* attachments and before the rest of its setup; a status other than
\* complete panics, and the panicked program makes no further step, so no
\* bind, clear, blit, draw or frame follows
C10_ProbeThenStop == [] C10_ProbeInSetup /\ [][pc # "panic"]_vars

C10_Witness ==
    /\ variant = "gles20ms"
    /\ pc = "panic"
    /\ frame = 0
    /\ log[Len(log)].f = "CheckFramebufferStatus"
    /\ log[Len(log)].a[2] = "FRAMEBUFFER_UNSUPPORTED"
    /\ log[Len(log)].gl.fbDraw = ctx.blitz.fbo

-----------------------------------------------------------------------------
(* Claims about errors, resizing and attachment sizes (Spec) *)

\* C11 as stated: in every framebuffer program a frame polls glGetError once,
\* after its draws, and a reported error is the last thing the program does
C11_PollOncePerFrame ==
    /\ DrawDone =>
         /\ Cardinality(Indices(log, "GetError")) = 1
         /\ \A i \in Indices(log, "GetError") :
              \A k \in Indices(log, "DrawElements") : k < i
    /\ \A i \in Indices(log, "GetError") :
         log[i].a[1] # "NO_ERROR" => (i = Len(log) /\ pc = "panic")

\* C12 as stated: the program keeps running when fboSizeCallback has been
\* invoked for a resize
C12_ResizeKeepsRunning == last.op = "fboSizeCallback" => pc # "panic"

\* floor of the product of a window dimension and a scale in tenths
ScaledFloor(n, scale) == (n * scale) \div 10

\* C13 as stated: every texture and renderbuffer given storage for an
\* offscreen target is floor(W*sx) wide and floor(H*sy) high
C13_FloorOfProduct ==
    /\ \A n \in 1..Len(obj.tex) :
         obj.tex[n].format # "none" =>
            /\ obj.tex[n].w = ScaledFloor(windowWidth, dpi[1])
            /\ obj.tex[n].h = ScaledFloor(windowHeight, dpi[2])
    /\ \A n \in 1..Len(obj.rbo) :
         obj.rbo[n].format # "none" =>
            /\ obj.rbo[n].w = ScaledFloor(windowWidth, dpi[1])
            /\ obj.rbo[n].h = ScaledFloor(windowHeight, dpi[2])

-----------------------------------------------------------------------------
(* SpecLayout: the setupBuffers functions on batches of any stream lengths *)

\* quads' worth of elements a stream of a batch given to setupBuffers holds
MaxLayoutQuads == 2

\* a stream of n elements
Fill(n) == [ i \in 1..n |-> 0 ] \o << >>

\* an ElementQuads whose position, texture-coordinate and color streams
\* hold np, nt and nc quads' worth of elements
BatchOf(np, nt, nc) ==
    [ NewElementQuads EXCEPT
        !.QuadVertices = Fill(np * verticesPerQuad * vertexPositionSize),
        !.QuadTexCoords = Fill(nt * verticesPerQuad * vertexTexCoordSize),
        !.QuadColors = Fill(nc * verticesPerQuad * vertexColorSize),
        !.QuadIndices = Fill(np * indicesPerQuad) ]

\* setup() has reached the first setupBuffers
InitLayout ==
    /\ variant \in FramebufferVariants
    /\ pc = IF variant \in ScreenBatchVariants THEN "ScreenSetupBuffers"
                                                ELSE "OffSetupBuffers"
    /\ \E np \in 0..MaxLayoutQuads, nt \in 0..MaxLayoutQuads, nc \in 0..MaxLayoutQuads :
         /\ off = BatchOf(np, nt, nc)
         /\ scr = IF variant \in ScreenBatchVariants THEN BatchOf(np, nt, 0)
                                                     ELSE NewElementQuads
    /\ last = NoCall
    /\ probe = NoProbe
    /\ dpi = << 10, 10 >>
    /\ gl = GLInit
    /\ obj = ObjInit
    /\ ctx = CtxInit
    /\ frame = 0
    /\ log = << >>

NextLayout ==
    \/ ScreenSetupBuffers
    \/ OffSetupProgram
    \/ OffSetupBuffers

SpecLayout == InitLayout /\ [][NextLayout]_vars

-----------------------------------------------------------------------------
(* Claims about the buffer layout (SpecLayout, Spec) *)

\* setupBuffers of the offscreen target has computed the layout
OffLaidOut == frame >= 1 \/ Indices(log, "GenFramebuffers") # {}

\* setupBuffers of the screen has computed the layout
ScrLaidOut ==
    /\ variant \in ScreenBatchVariants
    /\ \/ frame >= 1
       \/ \E i \in Indices(log, "GenBuffers") : log[i].a[1] = << "screen", "vbo" >>

\* bytes of one element of the color stream: uint8 in the multisample
\* program, uint32 in the desktop programs
ColorElementBytes == IF variant = "gles20ms" THEN 1 ELSE 4

\* C14: the layout has positions at 0, texture coordinates right after the
\* positions (4 bytes each), colors right after the texture coordinates
\* (1 byte each) and BytesTotal right after the colors; the screen batch
\* ends after its texture coordinates; for all stream lengths
C14_OffsetsInOrder ==
    /\ OffLaidOut =>
         /\ off.OffsetVertices = 0
         /\ off.OffsetTexCoords = Len(off.QuadVertices) * 4
         /\ off.OffsetColors = off.OffsetTexCoords + Len(off.QuadTexCoords) * 1
         /\ off.BytesTotal = off.OffsetColors + Len(off.QuadColors) * ColorElementBytes
    /\ ScrLaidOut =>
         /\ scr.OffsetVertices = 0
         /\ scr.OffsetTexCoords = Len(scr.QuadVertices) * 4
         /\ scr.BytesTotal = scr.OffsetTexCoords + Len(scr.QuadTexCoords)

C14_Witness ==
    /\ variant = "gl32ms"
    /\ pc = "OffSetupCamera"
    /\ Len(off.QuadVertices) = 24
    /\ Len(off.QuadTexCoords) = 8
    /\ Len(off.QuadColors) = 32
    /\ off.OffsetTexCoords = 96
    /\ off.OffsetColors = 104
    /\ off.BytesTotal = 232
    /\ scr.BytesTotal = 104

\* the BufferSubData calls of l that write the vertex buffer named n
VertexUploads(l, n) ==
    { i \in Indices(l, "BufferSubData") :
        l[i].a[1] = "ARRAY_BUFFER" /\ l[i].gl.arrayBuf = n }

\* BytesTotal of the batch kept in the vertex buffer named n
BytesTotalOf(n) == IF n = ctx.off.vbo THEN off.BytesTotal ELSE scr.BytesTotal

\* C15: the byte ranges uploaded for the streams of a batch end at or before
\* BytesTotal, the size the buffer was allocated with, and a range uploaded
\* later (the next stream in declaration order) starts at or after the end
\* of every range uploaded before it
C15_RangesDisjoint ==
    \A n \in 1..Len(obj.buf) :
        /\ \A i \in VertexUploads(log, n) :
             /\ obj.buf[n].size = BytesTotalOf(n)
             /\ log[i].a[2] >= 0
             /\ log[i].a[2] + log[i].a[3] <= obj.buf[n].size
        /\ \A i, j \in VertexUploads(log, n) :
             i < j => log[i].a[2] + log[i].a[3] <= log[j].a[2]

C15_Witness ==
    /\ pc = "OffSetupCamera"
    /\ Cardinality(VertexUploads(log, ctx.off.vbo)) = 3
    /\ \A i \in VertexUploads(log, ctx.off.vbo) : log[i].a[3] > 0
    /\ Len(off.QuadVertices) = 12
    /\ Len(off.QuadColors) = 32

StreamLens(q) ==
    << Len(q.QuadVertices), Len(q.QuadTexCoords), Len(q.QuadColors),
       Len(q.QuadIndices) >>

\* the offset a draw gives to glVertexAttribPointer for an attribute
PointerOffsets(l, attrib) ==
    { l[i].a[5] : i \in { k \in Indices(l, "VertexAttribPointer") : l[k].a[1] = attrib } }

C16_LayoutAtDraw ==
    frame >= 1 =>
        /\ OffLayout(variant, off) = off
        /\ variant \in ScreenBatchVariants => ScreenLayout(scr) = scr
        /\ PointerOffsets(log, "off.vertexPosition") \subseteq { off.OffsetVertices }
        /\ PointerOffsets(log, "off.vertexTexCoord") \subseteq { off.OffsetTexCoords }
        /\ PointerOffsets(log, "off.vertexColor") \subseteq { off.OffsetColors }
        /\ PointerOffsets(log, "screen.vertexPosition") \subseteq { scr.OffsetVertices }
        /\ PointerOffsets(log, "screen.vertexTexCoord") \subseteq { scr.OffsetTexCoords }
        /\ \A k \in DrawsInto(log, ctx.off.fbo) : log[k].a[2] = Len(off.QuadIndices)

\* C16: at every draw of every frame the stored offsets and BytesTotal are
\* the ones the batch's stream lengths give, and the draw uses them; once
\* load() has returned no stream of a batch changes its length
C16_LayoutCurrent ==
    /\ [] C16_LayoutAtDraw
    /\ [][ pc # "load" => /\ StreamLens(off') = StreamLens(off)
                          /\ StreamLens(scr') = StreamLens(scr) ]_vars

C16_Witness ==
    /\ variant = "gles20ms"
    /\ frame = 2
    /\ pc = "SwapBuffers"
    /\ off.QuadColors[1] = 254
    /\ off.OffsetColors = 112
    /\ off.BytesTotal = 144
    /\ PointerOffsets(log, "off.vertexColor") = { 112 }

\* the four layout fields of a batch
LayoutOf(q) == << q.OffsetVertices, q.OffsetTexCoords, q.OffsetColors, q.BytesTotal >>

\* q with other values in its layout fields
Stale(q) ==
    [ q EXCEPT !.OffsetVertices = 3, !.OffsetTexCoords = 5, !.OffsetColors = 7,
               !.BytesTotal = 11 ]

C17_SameLayoutAgain ==
    /\ LET once == OffLayout(variant, off)
           twice == OffLayout(variant, once)
       IN  /\ twice = once
           /\ LayoutOf(OffLayout(variant, Stale(off))) = LayoutOf(once)
           /\ StreamLens(once) = StreamLens(off)
           /\ once.QuadVertices = off.QuadVertices
           /\ once.QuadTexCoords = off.QuadTexCoords
           /\ once.QuadColors = off.QuadColors
    /\ LET once == ScreenLayout(scr)
           twice == ScreenLayout(once)
       IN  /\ twice = once
           /\ ScreenLayout(Stale(scr)).BytesTotal = once.BytesTotal
           /\ ScreenLayout(Stale(scr)).OffsetTexCoords = once.OffsetTexCoords
           /\ once.QuadVertices = scr.QuadVertices
           /\ once.QuadTexCoords = scr.QuadTexCoords
    /\ OffLaidOut => OffLayout(variant, off) = off
    /\ ScrLaidOut => ScreenLayout(scr) = scr

\* C17: computing the layout of a batch again gives the same offsets and
\* BytesTotal, whatever the layout fields held before; the result depends on
\* the stream lengths only, and no setupBuffers changes a stream
C17_LayoutIdempotent ==
    /\ [] C17_SameLayoutAgain
    /\ [][ /\ off'.QuadVertices = off.QuadVertices
           /\ off'.QuadTexCoords = off.QuadTexCoords
           /\ off'.QuadColors = off.QuadColors
           /\ off'.QuadIndices = off.QuadIndices
           /\ StreamLens(scr') = StreamLens(scr) ]_vars

C17_Witness ==
    /\ variant = "gles20ms"
    /\ pc = "OffSetupCamera"
    /\ StreamLens(off) = << 24, 8, 16, 12 >>
    /\ LayoutOf(off) = << 0, 96, 104, 120 >>
    /\ LayoutOf(OffLayout(variant, off)) = << 0, 96, 104, 120 >>

\* vertices a stream of k values per vertex describes
VertexCount(stream, k) == Len(stream) \div k

\* the per-vertex streams of the offscreen batch disagree on the vertex count
Mismatched(q) ==
    \/ VertexCount(q.QuadVertices, vertexPositionSize)
         # VertexCount(q.QuadTexCoords, vertexTexCoordSize)
    \/ VertexCount(q.QuadVertices, vertexPositionSize)
         # VertexCount(q.QuadColors, vertexColorSize)

-----------------------------------------------------------------------------
(* Claims about the loaded batches (Spec) *)

\* the streams of q describe n vertices each and n / 4 quads of 6 indices;
\* colors tells whether the batch keeps a color stream
SameVertexCount(q, colors) ==
    LET n == VertexCount(q.QuadVertices, vertexPositionSize)
    IN  /\ Len(q.QuadVertices) = 3 * n
        /\ Len(q.QuadTexCoords) = 2 * n
        /\ colors => Len(q.QuadColors) = 4 * n
        /\ 6 * n = 4 * Len(q.QuadIndices)

\* C19: in every state of the framebuffer programs, from before load() to
\* after every frame, the position, texture-coordinate and (offscreen batch)
\* color streams of a batch describe the same number of vertices, which is
\* 4 per 6 indices
C19_StreamsAgree ==
    /\ SameVertexCount(off, TRUE)
    /\ SameVertexCount(scr, FALSE)

C19_Witness ==
    /\ variant = "gles20ms"
    /\ frame = 3
    /\ pc = "SwapBuffers"
    /\ VertexCount(off.QuadColors, vertexColorSize) = 8
    /\ VertexCount(scr.QuadTexCoords, vertexTexCoordSize) = 4
    /\ off.QuadColors[1] = 254

\* load() has returned
Loaded == pc # "load"

\* C20 as stated: the two rectangles of load() give 2 quads, 8 vertices and
\* 48 index entries, and the debug summary says Rectangles: 2
C20_FortyEightIndices ==
    Loaded =>
        /\ NQuads(off) = 2
        /\ VertexCount(off.QuadVertices, vertexPositionSize) = 8
        /\ Len(off.QuadIndices) = 48
        /\ DebugPrint(off).Rectangles = 2

\* C20 amended: the 2x2 rectangle at depth -1.2 and the 1x1 rectangle at
\* depth -1.1 of load() give 2 quads, 8 vertices and 12 index entries, and
\* the debug summary says Rectangles: 2
C20_LoadTwoQuads ==
    Loaded =>
        /\ NQuads(off) = 2
        /\ VertexCount(off.QuadVertices, vertexPositionSize) = 8
        /\ Len(off.QuadIndices) = 12
        /\ DebugPrint(off).Rectangles = 2
        /\ DebugPrint(off).Indices = 12
        /\ SubSeq(off.QuadVertices, 1, 3) = << 10, 10, -12 >>
        /\ SubSeq(off.QuadVertices, 13, 15) = << 5, 5, -11 >>

C20_Witness ==
    /\ pc = SetupOrder(variant)[1]
    /\ variant = "gl32fb"
    /\ DebugPrint(off) = [ Rectangles |-> 2, Vertices |-> 24, TexCoord |-> 16,
                           Colors |-> 32, Indices |-> 12 ]

-----------------------------------------------------------------------------
(* Claims about index width, stream contents and winding *)

\* the index stream idx holds, for each of its n quads, the exact integers
\* 4k + {0,1,2,0,2,3}
ExactIndices(idx, n) ==
    /\ Len(idx) = indicesPerQuad * n
    /\ \A k \in 0..(n - 1) :
         SubSeq(idx, indicesPerQuad * k + 1, indicesPerQuad * k + indicesPerQuad)
           = QuadAt(verticesPerQuad * k)

\* C21 as stated: with uint16 indices no append ever stores an index that
\* differs from 4k+j, whatever vertex count the batch has reached
C21_NeverWraps ==
    variant \in Uint16Variants =>
      /\ ExactIndices(off.QuadIndices, last.appended)
      /\ probe.done =>
           probe.indices = QuadAt(verticesPerQuad * probe.quadsBefore)

\* C21 amended: with uint16 indices, every index of a batch whose vertex
\* count stays below 65536 is the exact integer 4k+j, no wraparound in the
\* multiplication by 4; the code does not bound the count, so the claim ends
\* there
C21_ExactBelowWrap ==
    variant \in Uint16Variants =>
      /\ verticesPerQuad * last.appended < Uint16Mod =>
           ExactIndices(off.QuadIndices, last.appended)
      /\ (probe.done /\ verticesPerQuad * (probe.quadsBefore + 1) < Uint16Mod) =>
           probe.indices = QuadAt(verticesPerQuad * probe.quadsBefore)

C21_Witness ==
    /\ variant \in Uint16Variants
    /\ probe.done
    /\ probe.quadsBefore = WrapQuads - 2
    /\ probe.indices = QuadAt(Uint16Mod - 2 * verticesPerQuad)

\* the values of stream s that belong to quad k (from 0), n values per quad
QuadSlice(s, k, n) == SubSeq(s, n * k + 1, n * k + n)

\* the 16 color values c are one (r,g,b,a) 4-tuple, repeated for v0..v3
FlatColor(c) ==
    /\ Len(c) = verticesPerQuad * vertexColorSize
    /\ \A vtx \in 0..(verticesPerQuad - 1) : \A ch \in 1..vertexColorSize :
         c[vertexColorSize * vtx + ch] = c[ch]

\* C22: every appended quad, whatever its size and depth, has the texture
\* coordinates (1,1),(0,1),(0,0),(1,0) for v0..v3 and one color repeated for
\* its 4 vertices, and the colors the GLES program regenerates in each frame
\* are again one color per quad
C22_FixedTexCoordsFlatColors ==
    /\ Len(off.QuadTexCoords) = verticesPerQuad * vertexTexCoordSize * NQuads(off)
    /\ Len(off.QuadColors) = verticesPerQuad * vertexColorSize * NQuads(off)
    /\ \A k \in 0..(NQuads(off) - 1) :
         /\ QuadSlice(off.QuadTexCoords, k, verticesPerQuad * vertexTexCoordSize)
              = << 1, 1, 0, 1, 0, 0, 1, 0 >>
         /\ FlatColor(QuadSlice(off.QuadColors, k, verticesPerQuad * vertexColorSize))
    /\ scr # NewElementQuads => scr.QuadTexCoords = << 1, 1, 0, 1, 0, 0, 1, 0 >>

C22_Witness ==
    /\ variant = "gles20ms"
    /\ frame >= 1
    /\ DrawDone
    /\ NQuads(off) = 2
    /\ off.QuadVertices[1] # off.QuadVertices[13]
    /\ QuadSlice(off.QuadColors, 0, 16) = makeQuadColors(<< 254, 17, 0, 1 >>)
    /\ QuadSlice(off.QuadColors, 1, 16) = makeQuadColors(<< 0, 0, 0, 1 >>)
    /\ Len(off.QuadTexCoords) = 16

\* vertex number n (from 0) of a position stream, as << x, y, z >>
VertexAt(verts, n) == SubSeq(verts, vertexPositionSize * n + 1,
                             vertexPositionSize * n + vertexPositionSize)

\* twice the signed area, in the x-y plane seen from +z, of triangle a b c
SignedArea2(a, b, c) ==
    (b[1] - a[1]) * (c[2] - a[2]) - (c[1] - a[1]) * (b[2] - a[2])

\* the triangles of quad k (from 0) of batch q, each a triple of vertices
\* looked up through the quad's indices
TrianglesOf(q, k) ==
    LET idx == QuadSlice(q.QuadIndices, k, indicesPerQuad)
        P(j) == VertexAt(q.QuadVertices, idx[j])
    IN  << << P(1), P(2), P(3) >>, << P(4), P(5), P(6) >> >>

\* quad k of batch q is the rectangle r: v0 top-right, v1 top-left, v2
\* bottom-left, v3 bottom-right, at half the width and height from the
\* centre and all at depth r.z
CornersOf(q, k, r) ==
    LET V(n) == VertexAt(q.QuadVertices, verticesPerQuad * k + n)
    IN  /\ 2 * V(0)[1] = r.w /\ 2 * V(0)[2] = r.h
        /\ V(1) = << -V(0)[1], V(0)[2], r.z >>
        /\ V(2) = << -V(0)[1], -V(0)[2], r.z >>
        /\ V(3) = << V(0)[1], -V(0)[2], r.z >>
        /\ V(0)[3] = r.z

\* C23: every quad of width w > 0 and height h > 0 is stored as v0 top-right,
\* v1 top-left, v2 bottom-left, v3 bottom-right at one depth, and its two
\* triangles (v0,v1,v2) and (v0,v2,v3) are counter-clockwise
C23_CornersCounterClockwise ==
    \A k \in 0..(NQuads(off) - 1) :
      /\ \E r \in Rects(variant) : r.w > 0 /\ r.h > 0 /\ CornersOf(off, k, r)
      /\ LET V(n) == VertexAt(off.QuadVertices, verticesPerQuad * k + n)
             t == TrianglesOf(off, k)
         IN  /\ t[1] = << V(0), V(1), V(2) >>
             /\ t[2] = << V(0), V(2), V(3) >>
             /\ SignedArea2(t[1][1], t[1][2], t[1][3]) > 0
             /\ SignedArea2(t[2][1], t[2][2], t[2][3]) > 0

C23_Witness ==
    /\ last.op = "DrawRectangle"
    /\ NQuads(off) = 2
    /\ CornersOf(off, 0, BlueRect(variant))
    /\ CornersOf(off, 1, RedRect(variant))
    /\ VertexAt(off.QuadVertices, 5) = << -10, 10, RedRect(variant).z >>
    /\ SignedArea2(VertexAt(off.QuadVertices, 4), VertexAt(off.QuadVertices, 6),
                   VertexAt(off.QuadVertices, 7)) = 400

-----------------------------------------------------------------------------
(* Claims about batch ownership and the frame's effect *)

\* C24: the two batches are separate objects: an append to the offscreen
\* batch leaves the screen batch as it was, loading the screen batch leaves the
\* offscreen batch as it was, the index base of an appended quad is the vertex
\* count of its own batch, and the screen batch is always one quad with the
\* indices 0,1,2,0,2,3 however many quads the offscreen batch holds
C24_BatchesIndependent ==
    /\ [](scr # NewElementQuads =>
            /\ NQuads(scr) = 1
            /\ scr.QuadIndices = << 0, 1, 2, 0, 2, 3 >>
            /\ Len(scr.QuadVertices) = verticesPerQuad * vertexPositionSize
            /\ scr.QuadColors = << >>
            /\ scr.BytesTotal = 0)
    /\ [][ /\ off' # off => scr' = scr
           /\ scr' # scr => off' = off
           /\ off' # off =>
                LastSix(off'.QuadIndices) = QuadAt(verticesPerQuad * NQuads(off)) ]_vars

C24_Witness ==
    /\ last.op = "ScreenLoad"
    /\ NQuads(off) = 2
    /\ LastSix(off.QuadIndices) = << 4, 5, 6, 4, 6, 7 >>
    /\ scr.QuadIndices = << 0, 1, 2, 0, 2, 3 >>

\* the BlitFramebuffer calls of the frame so far
Blits == SelectSeq(log, LAMBDA e : e.f = "BlitFramebuffer")

\* C25: every resolve blit copies the color buffer only, with nearest
\* filtering, from (0,0)-(Wp,Hp) to the same rectangle, Wp and Hp being the
\* width and height the resolve target's color texture and the multisample
\* depth/stencil renderbuffer were given storage for
C25_BlitAllocatedRegion ==
    \A i \in 1..Len(Blits) :
      LET a == Blits[i].a
          t == obj.tex[ctx.blitz.fboTexture]
          r == obj.rbo[ctx.off.fboRenderbuffer]
      IN  /\ ctx.blitz.fboTexture # 0 /\ ctx.off.fboRenderbuffer # 0
          /\ t.format # "none" /\ r.format # "none"
          /\ r.samples = msaaSamples
          /\ << a[1], a[2], a[3], a[4] >> = << 0, 0, t.w, t.h >>
          /\ << a[5], a[6], a[7], a[8] >> = << 0, 0, t.w, t.h >>
          /\ << r.w, r.h >> = << t.w, t.h >>
          /\ a[9] = {"COLOR_BUFFER_BIT"}
          /\ a[10] = "NEAREST"

C25_Witness ==
    /\ variant = "gles20ms"
    /\ dpi = << 20, 10 >>
    /\ DrawDone
    /\ Len(Blits) = 1
    /\ Blits[1].a[3] = 2 * windowWidth
    /\ Blits[1].a[8] = windowHeight
    /\ obj.tex[ctx.blitz.fboTexture].w = 2 * windowWidth

\* the positions of the program inside the frame loop
FramePcs ==
    { FrameOrder(variant)[i] : i \in 1..Len(FrameOrder(variant)) }
      \cup { "ShouldClose" }

\* C26 as stated: no step of a frame changes a batch stream, a layout value
\* or a resource handle, in any variant
C26_FrameChangesNothing ==
    [][ (pc \in FramePcs) => (ctx' = ctx /\ off' = off /\ scr' = scr) ]_vars

\* C26 amended: no step of a frame changes a resource handle, a layout value,
\* the screen batch, or the positions, texture coordinates and indices of
\* the offscreen batch; the colors of the offscreen batch stay as they are in
\* the desktop variants, and in the GLES variant each frame replaces them
\* with as many new values
C26_FrameKeepsPipeline ==
    [][ (pc \in FramePcs) =>
          /\ ctx' = ctx
          /\ scr' = scr
          /\ [ off' EXCEPT !.QuadColors = off.QuadColors ] = off
          /\ Len(off'.QuadColors) = Len(off.QuadColors)
          /\ variant # "gles20ms" => off' = off ]_vars

C26_Witness ==
    /\ variant = "gles20ms"
    /\ frame = 2
    /\ DrawDone
    /\ QuadSlice(off.QuadColors, 0, 16) = makeQuadColors(<< 0, 0, 0, 1 >>)
    /\ QuadSlice(off.QuadColors, 1, 16) = makeQuadColors(<< 254, 17, 0, 1 >>)
    /\ Len(off.QuadIndices) = 12
    /\ off.BytesTotal = 24 * bytesFloat32 + 16 * bytesUint8 + 32 * bytesUint8
    /\ ctx.off.vbo # 0 /\ ctx.blitz.fboTexture # 0 /\ ctx.screen.vbo # 0

-----------------------------------------------------------------------------
(* SpecIndexed: the indexed draws of every program.  The framebuffer      *)
(* programs run as in Spec; the programs with one vbo and one ibo keep     *)
(* their handles program, vbo, ibo in the fields of ctx.screen.            *)

\* var cubeVertices: 3 vertices of x,y,z (tenths) and r,g,b
cubeVertices ==
    << 5, 5, -10, 1, 0, 0,
       -5, 5, -10, 1, 0, 0,
       -5, -5, -10, 1, 0, 0 >>

\* var cubeIndices = []float32{0, 1, 2}
cubeIndices == << 0, 1, 2 >>

\* var quadVertices of the fixed quad programs: 4 vertices of x,y,z (tenths)
\* and r,g,b
quadVertices ==
    << windowWidth * 5, windowHeight * 5, -10, 0, 0, 0,
       -(windowWidth * 5), windowHeight * 5, -10, 1, 0, 0,
       -(windowWidth * 5), -(windowHeight * 5), -10, 0, 0, 0,
       windowWidth * 5, -(windowHeight * 5), -10, 0, 0, 1 >>

\* var quadIndices = []int32{0, 1, 2, 0, 2, 3}
quadIndices == << 0, 1, 2, 0, 2, 3 >>

\* the Go element type of the slice a program hands to the index upload
IndexSliceType(v) ==
    CASE v = "gl32tri" -> "float32"
      [] v \in {"gl21quad", "gl21glsl"} -> "int32"
      [] v = "gl21vbo" -> "uint32"
      [] OTHER -> "uint16"

\* bytes of one element of a Go slice of that type
SliceElementBytes(t) == IF t = "uint16" THEN bytesUint16 ELSE bytesUint32

\* bytes of one index as DrawElements is told to read it
IndexTypeBytes(glType) == IF glType = "UNSIGNED_SHORT" THEN bytesUint16 ELSE bytesUint32

RECURSIVE FloorLog2(_)
FloorLog2(x) == IF x < 2 THEN 0 ELSE 1 + FloorLog2(x \div 2)

\* the IEEE 754 single precision bit pattern of a whole number 0 <= x < 2^24
Float32Bits(x) ==
    IF x = 0 THEN 0
    ELSE LET exp == FloorLog2(x)
         IN  (127 + exp) * 2^23 + (x - 2^exp) * 2^(23 - exp)

\* the n bytes, lowest first, a value of type t occupies in memory
MemoryOf(t, x, n) ==
    LET word == IF t = "float32" THEN Float32Bits(x) ELSE x
    IN  [ i \in 1..n |-> (word \div 256^(i - 1)) % 256 ]

\* gl.Ptr(slice): the memory of the slice's elements, in order
SliceMemory(t, data) ==
    LET n == SliceElementBytes(t)
    IN  [ i \in 1..(Len(data) * n) |->
            MemoryOf(t, data[((i - 1) \div n) + 1], n)[((i - 1) % n) + 1] ] \o << >>

\* the unsigned integer the GPU reads from n bytes at byte offset at of mem;
\* -1 stands for a read that leaves the buffer
ReadIndex(mem, at, n) ==
    IF at + n > Len(mem) THEN -1
    ELSE LET RECURSIVE Sum(_)
             Sum(i) == IF i > n THEN 0 ELSE mem[at + i] * 256^(i - 1) + Sum(i + 1)
         IN  Sum(1)

\* main up to the loop, setupScene
TriSetupCalls(built) ==
    << Call("ClearColor", << 5, 5, 5, 10 >>),
       Call("Enable", << "DEPTH_TEST" >>),
       Call("FrontFace", << "CCW" >>),
       Call("DepthFunc", << "LEQUAL" >>),
       Call("newProgram", << << "screen", "program" >>, built >>),
       Call("UseProgram", << << "screen", "program" >> >>),
       Call("GenBuffers", << << "screen", "vbo" >> >>),
       Call("GenBuffers", << << "screen", "ibo" >> >>),
       Call("BindBuffer", << "ARRAY_BUFFER", << "screen", "vbo" >> >>),
       Call("BufferData", << "ARRAY_BUFFER", Len(cubeVertices) * floatSizeInBytes,
                             cubeVertices >>),
       Call("BindBuffer", << "ARRAY_BUFFER", Zero >>),
       Call("BindBuffer", << "ELEMENT_ARRAY_BUFFER", << "screen", "ibo" >> >>),
       Call("BufferData", << "ELEMENT_ARRAY_BUFFER",
                             Len(cubeIndices) * floatSizeInBytes, cubeIndices >>),
       Call("BindBuffer", << "ELEMENT_ARRAY_BUFFER", Zero >>) >>

\* setupBuffers of the fixed quad programs
QuadSetupBuffersCalls ==
    << Call("GenBuffers", << << "screen", "vbo" >> >>),
       Call("GenBuffers", << << "screen", "ibo" >> >>),
       Call("BindBuffer", << "ARRAY_BUFFER", << "screen", "vbo" >> >>),
       Call("BufferData", << "ARRAY_BUFFER", Len(quadVertices) * floatSizeInBytes,
                             quadVertices >>),
       Call("BindBuffer", << "ARRAY_BUFFER", Zero >>),
       Call("BindBuffer", << "ELEMENT_ARRAY_BUFFER", << "screen", "ibo" >> >>),
       Call("BufferData", << "ELEMENT_ARRAY_BUFFER",
                             Len(quadIndices) * floatSizeInBytes, quadIndices >>),
       Call("BindBuffer", << "ELEMENT_ARRAY_BUFFER", Zero >>) >>

\* setupBuffers of the makeRectangle program: positions, then colors
RectSetupBuffersCalls(q) ==
    << Call("GenBuffers", << << "screen", "vbo" >> >>),
       Call("GenBuffers", << << "screen", "ibo" >> >>),
       Call("BindBuffer", << "ARRAY_BUFFER", << "screen", "vbo" >> >>),
       Call("BufferData", << "ARRAY_BUFFER",
                             Len(q.QuadVertices) * bytesFloat32
                               + Len(q.QuadColors) * bytesUint32, << >> >>),
       Call("BufferSubData", << "ARRAY_BUFFER", 0 * bytesFloat32,
                                Len(q.QuadVertices) * bytesFloat32, q.QuadVertices >>),
       Call("BufferSubData", << "ARRAY_BUFFER", Len(q.QuadVertices) * bytesFloat32,
                                Len(q.QuadColors) * bytesUint32, q.QuadColors >>),
       Call("BindBuffer", << "ARRAY_BUFFER", Zero >>),
       Call("BindBuffer", << "ELEMENT_ARRAY_BUFFER", << "screen", "ibo" >> >>),
       Call("BufferData", << "ELEMENT_ARRAY_BUFFER",
                             Len(q.QuadIndices) * bytesUint32, q.QuadIndices >>),
       Call("BindBuffer", << "ELEMENT_ARRAY_BUFFER", Zero >>) >>

\* setup() of a program with one vbo and one ibo (for "gl32tri": the part of
\* main before the loop); built tells whether the shaders build
SingleSetupCalls(v, built, q) ==
    CASE v = "gl32tri" -> TriSetupCalls(built)
      [] v = "gl21quad" ->
           << Call("ClearColor", << 5, 5, 5, 10 >>),
              Call("Clear", << {"COLOR_BUFFER_BIT"} >>) >>
           \o QuadSetupBuffersCalls
           \o << Call("MatrixMode", << "PROJECTION" >>),
                 Call("LoadIdentity", << >>),
                 Call("Frustum", << >>),
                 Call("MatrixMode", << "MODELVIEW" >>),
                 Call("LoadIdentity", << >>) >>
      [] v = "gl21glsl" ->
           << Call("newProgram", << << "screen", "program" >>, built >>),
              Call("UseProgram", << << "screen", "program" >> >>),
              Call("GetAttribLocation", << "vertexPosition" >>),
              Call("GetAttribLocation", << "vertexColor" >>),
              Call("ClearColor", << 5, 5, 5, 10 >>),
              Call("Clear", << {"COLOR_BUFFER_BIT"} >>) >>
           \o QuadSetupBuffersCalls
           \o << Call("UniformMatrix4fv", << "projection" >>),
                 Call("UniformMatrix4fv", << "modelview" >>) >>
      [] OTHER ->
           << Call("ClearColor", << 5, 5, 5, 10 >>),
              Call("Clear", << {"COLOR_BUFFER_BIT", "DEPTH_BUFFER_BIT"} >>),
              Call("newProgram", << << "screen", "program" >>, built >>),
              Call("UseProgram", << << "screen", "program" >> >>),
              Call("GetAttribLocation", << "vertexPosition" >>),
              Call("GetAttribLocation", << "vertexColor" >>) >>
           \o RectSetupBuffersCalls(q)
           \o << Call("Enable", << "DEPTH_TEST" >>),
                 Call("DepthFunc", << "LEQUAL" >>),
                 Call("UniformMatrix4fv", << "projection" >>),
                 Call("UniformMatrix4fv", << "camera" >>),
                 Call("UniformMatrix4fv", << "model" >>) >>

\* drawScene
TriDrawCalls ==
    << Call("Clear", << {"COLOR_BUFFER_BIT", "DEPTH_BUFFER_BIT"} >>),
       Call("UseProgram", << << "screen", "program" >> >>),
       Call("UniformMatrix4fv", << "projection" >>),
       Call("UniformMatrix4fv", << "camera" >>),
       Call("UniformMatrix4fv", << "model" >>),
       Call("BindFragDataLocation", << "outputColor" >>),
       Call("GetAttribLocation", << "vert" >>),
       Call("GetAttribLocation", << "vertColor" >>),
       Call("EnableVertexAttribArray", << "vert" >>),
       Call("EnableVertexAttribArray", << "vertColor" >>),
       Call("BindBuffer", << "ARRAY_BUFFER", << "screen", "vbo" >> >>),
       Call("VertexAttribPointer",
            << "vert", 3, "FLOAT", FALSE, 0 * floatSizeInBytes,
               vertexSize * floatSizeInBytes >>),
       Call("VertexAttribPointer",
            << "vertColor", 3, "FLOAT", FALSE, 3 * floatSizeInBytes,
               vertexSize * floatSizeInBytes >>),
       Call("BindBuffer", << "ELEMENT_ARRAY_BUFFER", << "screen", "ibo" >> >>),
       Call("DrawElements", << "TRIANGLES", 3, "UNSIGNED_INT", 0 >>),
       Call("DisableVertexAttribArray", << "vert" >>),
       Call("DisableVertexAttribArray", << "vertColor" >>),
       Call("BindBuffer", << "ARRAY_BUFFER", Zero >>),
       Call("BindBuffer", << "ELEMENT_ARRAY_BUFFER", Zero >>) >>

\* draw() of a program with one vbo and one ibo; e is what GetError returns
\* first: the fixed-function program prints it, the others panic on it
SingleDrawCalls(v, q, e) ==
    CASE v = "gl32tri" -> TriDrawCalls
      [] v = "gl21quad" ->
           << Call("BindBuffer", << "ARRAY_BUFFER", << "screen", "vbo" >> >>),
              Call("BindBuffer", << "ELEMENT_ARRAY_BUFFER", << "screen", "ibo" >> >>),
              Call("EnableClientState", << "VERTEX_ARRAY" >>),
              Call("EnableClientState", << "COLOR_ARRAY" >>),
              Call("VertexPointer",
                   << 3, "FLOAT", vertexSize * floatSizeInBytes, 0 * floatSizeInBytes >>),
              Call("ColorPointer",
                   << 3, "FLOAT", vertexSize * floatSizeInBytes, 3 * floatSizeInBytes >>),
              Call("DrawElements",
                   << "TRIANGLES", Len(quadIndices), "UNSIGNED_INT",
                      0 * floatSizeInBytes >>),
              Call("BindBuffer", << "ARRAY_BUFFER", Zero >>),
              Call("BindBuffer", << "ELEMENT_ARRAY_BUFFER", Zero >>),
              Call("DisableClientState", << "VERTEX_ARRAY" >>),
              Call("DisableClientState", << "COLOR_ARRAY" >>) >>
           \o ( IF e = "NO_ERROR" THEN << >>
                ELSE << Call("print_GL_ERROR", << e >>) >> )
      [] v = "gl21glsl" ->
           << Call("UseProgram", << << "screen", "program" >> >>),
              Call("BindBuffer", << "ARRAY_BUFFER", << "screen", "vbo" >> >>),
              Call("BindBuffer", << "ELEMENT_ARRAY_BUFFER", << "screen", "ibo" >> >>),
              Call("EnableVertexAttribArray", << "vertexPosition" >>),
              Call("EnableVertexAttribArray", << "vertexColor" >>),
              Call("VertexAttribPointer",
                   << "vertexPosition", 3, "FLOAT", FALSE, 0 * floatSizeInBytes,
                      vertexSize * floatSizeInBytes >>),
              Call("VertexAttribPointer",
                   << "vertexColor", 3, "FLOAT", FALSE, 3 * floatSizeInBytes,
                      vertexSize * floatSizeInBytes >>),
              Call("DrawElements",
                   << "TRIANGLES", Len(quadIndices), "UNSIGNED_INT",
                      0 * floatSizeInBytes >>),
              Call("BindBuffer", << "ARRAY_BUFFER", Zero >>),
              Call("BindBuffer", << "ELEMENT_ARRAY_BUFFER", Zero >>),
              Call("DisableVertexAttribArray", << "vertexPosition" >>),
              Call("DisableVertexAttribArray", << "vertexColor" >>),
              Call("GetError", << e >>) >>
      [] OTHER ->
           << Call("Clear", << {"COLOR_BUFFER_BIT", "DEPTH_BUFFER_BIT"} >>),
              Call("UseProgram", << << "screen", "program" >> >>),
              Call("BindBuffer", << "ARRAY_BUFFER", << "screen", "vbo" >> >>),
              Call("BindBuffer", << "ELEMENT_ARRAY_BUFFER", << "screen", "ibo" >> >>),
              Call("EnableVertexAttribArray", << "vertexPosition" >>),
              Call("EnableVertexAttribArray", << "vertexColor" >>),
              Call("VertexAttribPointer",
                   << "vertexPosition", vertexPositionSize, "FLOAT", FALSE,
                      0 * bytesFloat32, 0 >>),
              Call("VertexAttribPointer",
                   << "vertexColor", vertexColorSize, "UNSIGNED_INT", FALSE,
                      Len(q.QuadVertices) * bytesFloat32, 0 >>),
              Call("DrawElements",
                   << "TRIANGLES", Len(q.QuadIndices), "UNSIGNED_INT",
                      0 * bytesUint32 >>),
              Call("BindBuffer", << "ARRAY_BUFFER", Zero >>),
              Call("BindBuffer", << "ELEMENT_ARRAY_BUFFER", Zero >>),
              Call("DisableVertexAttribArray", << "vertexPosition" >>),
              Call("DisableVertexAttribArray", << "vertexColor" >>),
              Call("GetError", << e >>) >>

InitIndexed ==
    /\ variant \in FramebufferVariants \cup SingleTargetPrograms
    /\ pc = IF variant \in FixedArrayPrograms THEN "SingleSetup" ELSE "load"
    /\ off = NewElementQuads
    /\ scr = NewElementQuads
    /\ last = NoCall
    /\ probe = NoProbe
    /\ dpi = << 10, 10 >>
    /\ gl = GLInit
    /\ obj = ObjInit
    /\ ctx = CtxInit
    /\ frame = 0
    /\ log = << >>

SingleSetup ==
    /\ \E built \in {"ok", "error"} :
         Run("SingleSetup", SingleSetupCalls(variant, built, off))
    /\ UNCHANGED <<variant, off, scr, last, probe, dpi, frame>>

SingleDraw ==
    /\ \E e \in GLErrors : Run("SingleDraw", SingleDrawCalls(variant, off, e))
    /\ UNCHANGED <<variant, off, scr, last, probe, dpi, frame>>

NextIndexed ==
    \/ Next
    \/ SingleSetup
    \/ SingleDraw

SpecIndexed == InitIndexed /\ [][NextIndexed]_vars

-----------------------------------------------------------------------------
(* Claims about the indexed draws (SpecIndexed) *)

\* the DrawElements calls of the frame so far
IndexedDraws == SelectSeq(log, LAMBDA e : e.f = "DrawElements")

\* what the index buffer bound at draw e holds: the slice handed to
\* BufferData and the bytes copied from its memory
IndexUpload(e) ==
    LET b == obj.buf[e.gl.elemBuf]
    IN  [ elements |-> b.regions[1].data,
          bytes |-> SubSeq(SliceMemory(IndexSliceType(variant), b.regions[1].data),
                           1, b.size) ]

\* the indices the GPU reads for draw e: e.a[2] values of the declared type
\* e.a[3], from byte offset e.a[4] of the bound index buffer
Fetched(e) ==
    LET n == IndexTypeBytes(e.a[3])
    IN  [ i \in 1..e.a[2] |-> ReadIndex(IndexUpload(e).bytes, e.a[4] + (i - 1) * n, n) ]

\* vertices in the vertex buffer that draw e reads
VerticesUploaded(e) ==
    CASE variant \in FixedArrayPrograms ->
           Len(obj.buf[ctx.screen.vbo].regions[1].data) \div vertexSize
      [] variant \in FramebufferVariants /\ e.gl.elemBuf = ctx.screen.ibo ->
           Len(scr.QuadVertices) \div vertexPositionSize
      [] OTHER -> Len(off.QuadVertices) \div vertexPositionSize

\* C27 as stated: in every program, each indexed draw declares the integer
\* type and width of the uploaded index data, counts exactly the uploaded
\* elements and starts at byte 0, so the GPU reads the stored integers, each
\* below the number of uploaded vertices
C27_IndexTypeMatches ==
    \A i \in 1..Len(IndexedDraws) :
      LET e == IndexedDraws[i]
          up == IndexUpload(e)
      IN  /\ e.gl.elemBuf # 0
          /\ IndexSliceType(variant) \in {"uint16", "uint32", "int32"}
          /\ IndexTypeBytes(e.a[3]) = SliceElementBytes(IndexSliceType(variant))
          /\ e.a[2] = Len(up.elements)
          /\ e.a[4] = 0
          /\ \A j \in 1..e.a[2] :
               /\ Fetched(e)[j] = up.elements[j]
               /\ Fetched(e)[j] < VerticesUploaded(e)

-----------------------------------------------------------------------------
(* Claims about the frame of the multisample program (Spec) *)

\* the BufferSubData calls of the current frame
FrameSubData ==
    IF frame >= 1 THEN SelectSeq(log, LAMBDA e : e.f = "BufferSubData") ELSE << >>

\* C28: in the GLES multisample program the colors regenerated in a frame
\* are 16 per quad, as many as setupBuffers laid out, so the frame's
\* BufferSubData writes [OffsetColors, OffsetColors + len(QuadColors)) into the
\* vertex buffer of BytesTotal bytes, after the positions and the texture
\* coordinates and up to the end of the buffer at most
C28_ColorRangeInsideBuffer ==
    variant = "gles20ms" =>
      /\ Len(off.QuadColors) = verticesPerQuad * vertexColorSize * NQuads(off)
      /\ \A i \in 1..Len(FrameSubData) :
           LET e == FrameSubData[i]
               first == e.a[2]
               bytes == e.a[3]
           IN  /\ e.gl.arrayBuf = ctx.off.vbo /\ ctx.off.vbo # 0
               /\ first = off.OffsetColors
               /\ bytes = Len(off.QuadColors) * bytesUint8
               /\ Len(e.a[4]) = Len(off.QuadColors)
               /\ bytes = off.BytesTotal - off.OffsetColors
               /\ first + bytes <= obj.buf[ctx.off.vbo].size
               /\ obj.buf[ctx.off.vbo].size = off.BytesTotal
               /\ off.OffsetVertices + Len(off.QuadVertices) * bytesFloat32
                    <= off.OffsetTexCoords
               /\ off.OffsetTexCoords + Len(off.QuadTexCoords) * bytesUint8 <= first

C28_Witness ==
    /\ variant = "gles20ms"
    /\ frame = 3
    /\ DrawDone
    /\ Len(FrameSubData) = 1
    /\ FrameSubData[1].a[2] = 24 * bytesFloat32 + 16 * bytesUint8
    /\ FrameSubData[1].a[3] = 32
    /\ obj.buf[ctx.off.vbo].size = 144

\* the calls of the current frame named f
FrameCalls(f) ==
    IF frame >= 1 THEN SelectSeq(log, LAMBDA e : e.f = f) ELSE << >>

\* C29: in every frame of the multisample program the offscreen batch is drawn
\* with the multisample FBO as draw framebuffer, the blit is issued with the
\* multisample FBO as read and the resolve FBO as draw framebuffer (distinct
\* and not 0), and the screen batch is drawn with read and draw framebuffer
\* 0; a draw has its attribute arrays enabled, and once it has returned the
\* array buffer, element buffer and texture bindings are 0 and no attribute
\* array is enabled
C29_BindingsPerStage ==
    variant = "gles20ms" =>
      /\ \A i \in 1..Len(FrameCalls("DrawElements")) :
           LET e == FrameCalls("DrawElements")[i]
           IN  /\ e.gl.elemBuf \in { ctx.off.ibo, ctx.screen.ibo }
               /\ e.gl.elemBuf # 0 /\ e.gl.arrayBuf # 0
               /\ e.gl.attribs # {}
               /\ e.gl.elemBuf = ctx.off.ibo =>
                    e.gl.fbDraw = ctx.off.fbo /\ ctx.off.fbo # 0
               /\ e.gl.elemBuf = ctx.screen.ibo =>
                    e.gl.fbDraw = 0 /\ e.gl.fbRead = 0
      /\ \A i \in 1..Len(FrameCalls("BlitFramebuffer")) :
           LET e == FrameCalls("BlitFramebuffer")[i]
           IN  /\ e.gl.fbRead = ctx.off.fbo
               /\ e.gl.fbDraw = ctx.blitz.fbo
               /\ ctx.off.fbo # 0 /\ ctx.blitz.fbo # 0
               /\ ctx.off.fbo # ctx.blitz.fbo
      /\ (frame >= 1 /\ pc # "panic") =>
           /\ gl.arrayBuf = 0 /\ gl.elemBuf = 0
           /\ gl.tex2D = 0 /\ gl.texMS = 0
           /\ gl.attribs = {}

C29_Witness ==
    /\ variant = "gles20ms"
    /\ DrawDone
    /\ Len(FrameCalls("DrawElements")) = 2
    /\ Len(FrameCalls("BlitFramebuffer")) = 1
    /\ FrameCalls("DrawElements")[1].gl.fbDraw = ctx.off.fbo
    /\ FrameCalls("DrawElements")[1].gl.attribs
         = { "off.vertexPosition", "off.vertexTexCoord", "off.vertexColor" }
    /\ FrameCalls("BlitFramebuffer")[1].gl.fbDraw = ctx.blitz.fbo
    /\ FrameCalls("DrawElements")[2].gl.fbDraw = 0
    /\ gl.attribs = {}

-----------------------------------------------------------------------------
(* Claims about the argument of makeQuadIndices (SpecBatch) *)

\* the floats the positions of one quad take
FloatsPerQuad == verticesPerQuad * vertexPositionSize

\* the indices of the last quad of batch q were generated from the length
\* the position array has with that quad's floats in it, a positive multiple
\* of 12, and the first quad is numbered from 0
IndexedFromOwnPositions(q) ==
    q.QuadIndices # << >> =>
      /\ Len(q.QuadVertices) >= FloatsPerQuad
      /\ Len(q.QuadVertices) % FloatsPerQuad = 0
      /\ Len(q.QuadVertices) \div FloatsPerQuad = NQuads(q)
      /\ LastSix(q.QuadIndices) = makeQuadIndices(variant, Len(q.QuadVertices))
      /\ SubSeq(q.QuadIndices, 1, indicesPerQuad) = << 0, 1, 2, 0, 2, 3 >>

\* C30: makeQuadIndices is only called with a position-array length that is
\* a positive multiple of 12: every append path has the quad's 12 position
\* floats in the array when the indices are generated, so rectangleCount - 1
\* is never negative and no batch starts at a wrapped base index
C30_PositionsBeforeIndices ==
    /\ IndexedFromOwnPositions(off)
    /\ IndexedFromOwnPositions(scr)
    /\ probe.done =>
         /\ probe.indices
              = makeQuadIndices(variant, FloatsPerQuad * (probe.quadsBefore + 1))
         /\ probe.quadsBefore = 0 => probe.indices = << 0, 1, 2, 0, 2, 3 >>
    /\ last.op = "DrawRectangle" =>
         Len(off.QuadVertices)
           = last.vertsBefore * vertexPositionSize + FloatsPerQuad

C30_Witness ==
    /\ last.op = "DrawRectangle"
    /\ last.appended = 1
    /\ Len(off.QuadVertices) = 12
    /\ off.QuadIndices = << 0, 1, 2, 0, 2, 3 >>
    /\ scr.QuadIndices = << 0, 1, 2, 0, 2, 3 >>
    /\ Len(scr.QuadVertices) = 12

====
